---- MODULE Spec2Model ----
(***************************************************************************)
(* A model of docassemble.LegalServerLink (LSAPIs.py): the bearer-token    *)
(* check, the single-request wrapper, the pagination loop, the field       *)
(* validator and the populate_* mappers.                                   *)
(*                                                                         *)
(* Python values are modelled as follows.  None is the empty sequence and  *)
(* a present value x is <<x>> wherever a value may be None (Some / IsNone).*)
(* A dictionary is a function from its keys to its values.  Time is        *)
(* counted in ticks of half a second, standing for the sub-second          *)
(* resolution of datetime values.                                          *)
(***************************************************************************)
EXTENDS Integers, Sequences, FiniteSets, TLC

VARIABLES
    config,                 \* get_config("legalserver"): None or the per-site map
    now,                    \* current_datetime(), in ticks
    site,                   \* the legalserver_site argument
    fn,                     \* the API function being called
    page_limit,             \* the page_limit argument (None or an integer)
    pc,                     \* position of the call
    header_content,         \* result of get_legalserver_token
    counter,                \* loop_through_legalserver_responses: counter
    total_number_of_pages,  \* loop_through_legalserver_responses: total_number_of_pages
    return_data,            \* accumulated rows / value to return
    page_number,            \* params["page_number"] (None until the loop sets it)
    sent,                   \* the requests issued: the page_number each carried
    served_rows,            \* history: the data rows of the successful responses, in order
    totals_seen,            \* history: the total_number_of_pages values reported
    failed,                 \* history: some request of the call did not succeed
    last_resp,              \* history: what the latest request came back with
    result,                 \* the value returned to the caller
    raised,                 \* the exception raised to the caller (None if none)
    mapper,                 \* the populate_* function being called
    legalserver_data,       \* its input: the dictionary (or the item of the list)
    destination,            \* the object being populated: attributes, custom_fields
    before,                 \* history: the destination as it was at the call
    map_pc,                 \* position of the populate_* call
    map_raised,             \* the exception populate_* raised (None if none)
    source_list,            \* check_for_valid_fields: the source_list argument
    module,                 \* check_for_valid_fields: the module argument
    valid,                  \* check_for_valid_fields: "True", "False", or what it raised
    verify,                 \* ls_interviews: what api_verify(roles=["legalserver"]) does
    ls_config,              \* ls_interviews: get_config("legalserver"), changed in place
    configured,             \* history: ls_config as it was at the request
    config_read,            \* history: get_config("legalserver") has been called
    response,               \* ls_interviews: the response of the route
    route_pc,               \* position of the GET /lsinterviews request
    server,                 \* search_* twice: the server's answer to each page, the same for both calls
    supplied,               \* search_* twice: the caller's search-parameter argument
    call_no,                \* search_* twice: 1 during the first call, 2 during the second
    first_sent,             \* history: the requests of the first call
    first_result,           \* history: the value the first call returned
    source_type,            \* get_source_module_data: the module asked for
    embedded,               \* get_source_module_data: the legalserver_data argument
    matter_arg,             \* get_source_module_data: the legalserver_matter_uuid argument
    site_arg,               \* get_source_module_data: the legalserver_site argument
    found,                  \* get_source_module_data: what a search of the module would return
    searched,               \* history: the search functions called, in order
    source,                 \* get_source_module_data: the returned list, None before the return
    assignment_list,        \* populate_*_pro_bono_assignment: the gathered assignments
    clock,                  \* populate_*_pro_bono_assignment: the time of the call, in ticks
    populated_by,           \* history: the function that was called, "" before the call
    user_requests,          \* history: the user uuids asked of get_user_details
    assignment_start_date,  \* the Individual's assignment_start_date, None when not set
    contact_kind,           \* populate_contact_data: the type of the contact argument
    contact_data_kind,      \* populate_contact_data: the type of the contact_data argument
    element,                \* element_to_dict: the XML element to convert
    converted,              \* element_to_dict: the returned value, None before the return
    user_pc,                \* get_user_details: "request", "affiliation", "returned" or "raised"
    user_resp,              \* history: the outcome of the user request
    user_return_data,       \* get_user_details: return_data
    affiliation,            \* history: the list search_user_organization_affiliation returned
    requested,              \* history: the requests get_user_details made, in order
    user_raised,            \* get_user_details: the exception that left it, None if none
    entity,                 \* check_custom_fields: the entity type the response is of
    response_obj,           \* check_custom_fields: the keys of the response, None when it is not a dict
    custom_keys             \* check_custom_fields: the list it returns, None before the return

vars == <<config, now, site, fn, page_limit, pc, header_content, counter,
          total_number_of_pages, return_data, page_number, sent, served_rows,
          totals_seen, failed, last_resp, result, raised,
          mapper, legalserver_data, destination, before, map_pc, map_raised,
          source_list, module, valid,
          verify, ls_config, configured, config_read, response, route_pc,
          server, supplied, call_no, first_sent, first_result,
          source_type, embedded, matter_arg, site_arg, found, searched, source,
          assignment_list, clock, populated_by, user_requests, assignment_start_date,
          contact_kind, contact_data_kind,
          element, converted,
          user_pc, user_resp, user_return_data, affiliation, requested, user_raised,
          entity, response_obj, custom_keys>>

apiVars == <<config, now, site, fn, page_limit, pc, header_content, counter,
             total_number_of_pages, return_data, page_number, sent, served_rows,
             totals_seen, failed, last_resp, result, raised>>
mapVars == <<mapper, legalserver_data, destination, before, map_pc, map_raised>>
fieldVars == <<source_list, module, valid>>
routeVars == <<verify, ls_config, configured, config_read, response, route_pc>>
twiceVars == <<server, supplied, call_no, first_sent, first_result>>
sourceVars == <<source_type, embedded, matter_arg, site_arg, found, searched, source>>
proBonoVars == <<assignment_list, clock, populated_by, user_requests, assignment_start_date>>
argVars == <<contact_kind, contact_data_kind>>
xmlVars == <<element, converted>>
userVars == <<user_pc, user_resp, user_return_data, affiliation, requested, user_raised>>
customVars == <<entity, response_obj, custom_keys>>

\* The variables of the other parts of the model, left as they are by the
\* API functions, by the mappers, by check_for_valid_fields, by the route ...
exceptApi == <<mapVars, fieldVars, routeVars, twiceVars, sourceVars, proBonoVars, argVars, xmlVars, userVars, customVars>>
exceptMap == <<apiVars, fieldVars, routeVars, twiceVars, sourceVars, proBonoVars, argVars, xmlVars, userVars, customVars>>
exceptFields == <<apiVars, mapVars, routeVars, twiceVars, sourceVars, proBonoVars, argVars, xmlVars, userVars, customVars>>
exceptRoute == <<apiVars, mapVars, fieldVars, twiceVars, sourceVars, proBonoVars, argVars, xmlVars, userVars, customVars>>
exceptTwice == <<mapVars, fieldVars, routeVars, sourceVars, proBonoVars, argVars, xmlVars, userVars, customVars>>
exceptSource == <<apiVars, mapVars, fieldVars, routeVars, twiceVars, proBonoVars, argVars, xmlVars, userVars, customVars>>
exceptProBono == <<apiVars, mapVars, fieldVars, routeVars, twiceVars, sourceVars, argVars, xmlVars, userVars, customVars>>
exceptArg == <<apiVars, mapVars, fieldVars, routeVars, twiceVars, sourceVars, proBonoVars, xmlVars, userVars, customVars>>
exceptXml == <<apiVars, mapVars, fieldVars, routeVars, twiceVars, sourceVars, proBonoVars, argVars, userVars, customVars>>
exceptUser == <<apiVars, mapVars, fieldVars, routeVars, twiceVars, sourceVars, proBonoVars, argVars, xmlVars, customVars>>
exceptCustom == <<apiVars, mapVars, fieldVars, routeVars, twiceVars, sourceVars, proBonoVars, argVars, xmlVars, userVars>>

----------------------------------------------------------------------------
(* Bounds of the model *)

\* largest total_number_of_pages the server reports
MaxPages == 3
\* largest page_limit a caller passes
MaxPageLimit == 3
\* most rows in the data array of one page
MaxRows == 1
\* expirations range over this many days before and after the current time
MaxDays == 1

----------------------------------------------------------------------------
(* Python values *)

None == <<>>
Some(x) == <<x>>
IsNone(v) == v = <<>>
Val(v) == v[1]

Min(a, b) == IF a < b THEN a ELSE b

\* A dictionary (or the attributes of an object) is a function from its
\* keys; this is the empty one
EmptyDict == [k \in {} |-> None]

----------------------------------------------------------------------------
(* Host configuration and the token check *)

\* The host configuration section: defined says whether get_config returned
\* a value at all, keys are the site names it holds, entry is the value
\* stored under each of them (None for a site configured with no content).
ConfigSites == {"demo"}
SiteArgs == {"demo", "Demo", "other"}

\* str.lower() on the names of the model
Lower(s) ==
    CASE s = "Demo" -> "demo"
      [] s = "Matters" -> "matters"
      [] OTHER -> s

\* dict.get on the configuration map
ConfigGet(cfg, key) == IF key \in cfg.keys THEN cfg.entry ELSE None

\* `not config`: None and the empty dictionary are both falsy
ConfigFalsy(cfg) == ~cfg.defined \/ cfg.keys = {}

TicksPerSecond == 2

\* datetime.timedelta of a difference in ticks: whole days, and whole seconds
\* of the remaining part of a day (0..86399); the sub-second part is carried
\* in microseconds, which date_difference does not read.
Timedelta(ticks) ==
    LET secs == ticks \div TicksPerSecond
    IN  [days |-> secs \div 86400, seconds |-> secs % 86400]

\* The whole days of the difference, as datetime.timedelta.days gives them
DateDifferenceWholeDays(starting, ending) == Timedelta(ending - starting).days

\* docassemble.base.util.date_difference(starting, ending).days, which is
\* delta.days + delta.seconds / 86400.0; kept as the numerator over 86400.
DateDifferenceDays(starting, ending) ==
    LET delta == Timedelta(ending - starting)
    IN  delta.days * 86400 + delta.seconds

\* get_legalserver_token: [raised |-> the exception or None, value |-> header]
GetLegalserverToken(cfg, legalserver_site, current) ==
    LET apikey == ConfigGet(cfg, Lower(legalserver_site))
    IN  IF ConfigFalsy(cfg)
        THEN [raised |-> Some("No LegalServer API credentials found in configuration."),
              value |-> None]
        ELSE IF IsNone(apikey)
        THEN [raised |-> Some("No API Credentials"), value |-> None]
        ELSE IF IsNone(Val(apikey).bearer)
        THEN [raised |-> Some("No bearer token"), value |-> None]
        ELSE IF IsNone(Val(apikey).expiration)
        THEN [raised |-> Some("No token expiration date"), value |-> None]
        ELSE IF DateDifferenceDays(Val(Val(apikey).expiration), current) > 0
        THEN [raised |-> Some("Bearer token has expired"), value |-> None]
        ELSE [raised |-> None, value |-> Some(Val(Val(apikey).bearer))]

\* check_legalserver_token: the dictionary it returns, as its one key and value
CheckLegalserverTokenNoExpiry(cfg, legalserver_site, current) ==
    LET apikey == ConfigGet(cfg, Lower(legalserver_site))
    IN  IF ConfigFalsy(cfg)
        THEN [key |-> "error",
              detail |-> "No LegalServer API credentials found in configuration."]
        ELSE IF IsNone(apikey)
        THEN [key |-> "error", detail |-> "site not included in configuration"]
        ELSE IF IsNone(Val(apikey).bearer)
        THEN [key |-> "error", detail |-> "no bearer token for site available"]
        ELSE IF IsNone(Val(apikey).expiration)
        THEN [key |-> "error",
              detail |-> "no bearer token expiration for site available"]
        ELSE [key |-> "no_error", detail |-> "valid token"]

CheckLegalserverToken(cfg, legalserver_site, current) ==
    LET apikey == ConfigGet(cfg, Lower(legalserver_site))
    IN  IF ConfigFalsy(cfg)
        THEN [key |-> "error",
              detail |-> "No LegalServer API credentials found in configuration."]
        ELSE IF IsNone(apikey)
        THEN [key |-> "error", detail |-> "site not included in configuration"]
        ELSE IF IsNone(Val(apikey).bearer)
        THEN [key |-> "error", detail |-> "no bearer token for site available"]
        ELSE IF IsNone(Val(apikey).expiration)
        THEN [key |-> "error",
              detail |-> "no bearer token expiration for site available"]
        ELSE IF DateDifferenceDays(Val(Val(apikey).expiration), current) > 0
        THEN [key |-> "error", detail |-> "bearer token expired"]
        ELSE [key |-> "no_error", detail |-> "valid token"]

\* The configurations and clock readings of the model.  Expirations lie
\* around the current time: up to MaxDays days before and after it, each
\* with the instants one tick before, at and one tick after the day mark,
\* and the instants a second before and after the current time.
TicksPerDay == 86400 * TicksPerSecond
Offsets ==
    {d * TicksPerDay + h : d \in (0 - MaxDays)..MaxDays, h \in {0 - 1, 0, 1}}
        \cup {0 - TicksPerSecond, TicksPerSecond}
NowTimes == {0}
Expirations == {t + o : t \in NowTimes, o \in Offsets}
ApiKeys ==
    [bearer : {None, Some("tok")},
     expiration : {None} \cup {Some(e) : e \in Expirations}]
Configs ==
    {[defined |-> FALSE, keys |-> {}, entry |-> None],
     [defined |-> TRUE, keys |-> {}, entry |-> None],
     [defined |-> TRUE, keys |-> ConfigSites, entry |-> None]}
        \cup {[defined |-> TRUE, keys |-> ConfigSites, entry |-> Some(a)] :
                a \in ApiKeys}


----------------------------------------------------------------------------
(* Values returned to the caller, and the server's responses *)

\* One element of a returned list: a record of the server (the i-th
\* response's j-th row) or a dictionary {"error": ...}.
DataRow(i, j) == [kind |-> "row", page |-> i, row |-> j, detail |-> "", status |-> 0]
ErrorRow(d, st) == [kind |-> "error", page |-> 0, row |-> 0, detail |-> d, status |-> st]

PyNone == [type |-> "NoneType", keys |-> {}, items |-> <<>>, detail |-> "", status |-> 0]
PyList(rows) == [type |-> "list", keys |-> {}, items |-> rows, detail |-> "", status |-> 0]
PyDict(ks) == [type |-> "dict", keys |-> ks, items |-> <<>>, detail |-> "", status |-> 0]
ErrorDict(d, st) ==
    [type |-> "dict", keys |-> {"error"}, items |-> <<>>, detail |-> d, status |-> st]

\* What one HTTP request can come back with.  kind is "response" when the
\* server answered, else the exception requests.get raised; json says whether
\* response.json() parses to an object; data and total are that object's
\* "data" and "total_number_of_pages" (None when the key is absent or null).
Failures == {"ConnectionError", "HTTPError", "Timeout", "Exception"}
Statuses == {200, 204, 404}

NoResponse == [kind |-> "none", status |-> 0, json |-> FALSE, data |-> None, total |-> None]
Raised(k) == [kind |-> k, status |-> 0, json |-> FALSE, data |-> None, total |-> None]
Answer(st, js, d, t) ==
    [kind |-> "response", status |-> st, json |-> js, data |-> d, total |-> t]

ListData(n) == Some([type |-> "list", n |-> n])
DictData == Some([type |-> "dict", n |-> 1])

Totals == {None} \cup {Some(t) : t \in 0..MaxPages}

SearchResponses ==
    {Raised(k) : k \in Failures}
        \cup {Answer(st, js, None, None) : st \in Statuses \ {200}, js \in BOOLEAN}
        \cup {Answer(200, FALSE, None, None)}
        \cup {Answer(200, TRUE, d, t) :
                d \in {None} \cup {ListData(n) : n \in 0..MaxRows}, t \in Totals}

GetResponses ==
    {Raised(k) : k \in Failures}
        \cup {Answer(st, js, None, None) : st \in Statuses \ {200}, js \in BOOLEAN}
        \cup {Answer(200, FALSE, None, None)}
        \cup {Answer(200, TRUE, d, None) : d \in {None, DictData, ListData(1)}}

\* response.raise_for_status(): HTTPError for a 4xx or 5xx status
RaiseForStatus(resp) == resp.kind = "response" /\ resp.status >= 400

\* The exception the try block sees for a request: the one requests.get
\* raised, or the HTTPError of raise_for_status; "" when there is none.
RequestException(resp) ==
    IF resp.kind # "response" THEN resp.kind
    ELSE IF RaiseForStatus(resp) THEN "HTTPError"
    ELSE ""

\* The rows of the data array of the i-th response
RowsOf(resp, i) ==
    IF IsNone(resp.data) THEN <<>>
    ELSE [j \in 1..Val(resp.data).n |-> DataRow(i, j)]

\* The server's own view of a request that did not succeed: anything but a
\* 200 answer whose body is a JSON object holding a data array.
ResponseFails(resp) ==
    \/ resp.kind # "response"
    \/ resp.status # 200
    \/ ~resp.json
    \/ IsNone(resp.data)


----------------------------------------------------------------------------
(* The API functions *)

Fns == {"check", "get", "search", "document", "report", "post"}
PageLimits == {None} \cup {Some(p) : p \in 0..MaxPageLimit}

\* No populate_* call and no check_for_valid_fields call is in progress
MapIdle ==
    /\ mapper = "none"
    /\ legalserver_data = EmptyDict
    /\ destination = [attrs |-> EmptyDict, custom_fields |-> None]
    /\ before = [attrs |-> EmptyDict, custom_fields |-> None]
    /\ map_pc = "idle"
    /\ map_raised = None

FieldsIdle ==
    /\ source_list = None
    /\ module = ""
    /\ valid = "idle"

\* No GET /lsinterviews request is in progress
NoConfig == [kind |-> "none", items |-> <<>>]
NoReply == [status |-> 0, error |-> "", interviews |-> None]
RouteIdle ==
    /\ verify = "idle"
    /\ ls_config = NoConfig
    /\ configured = NoConfig
    /\ config_read = FALSE
    /\ response = NoReply
    /\ route_pc = "idle"

\* No pair of search_* calls is in progress
TwiceIdle ==
    /\ server = [pages |-> 0, rows |-> 0, beyond |-> NoResponse]
    /\ supplied = "idle"
    /\ call_no = 0
    /\ first_sent = <<>>
    /\ first_result = PyNone

\* No call of get_source_module_data is in progress
SourceIdle ==
    /\ source_type = ""
    /\ embedded = [kind |-> "None", list |-> <<>>]
    /\ matter_arg = None
    /\ site_arg = None
    /\ found = <<>>
    /\ searched = <<>>
    /\ source = None

\* No call of populate_first/latest_pro_bono_assignment is in progress
ProBonoIdle ==
    /\ assignment_list = <<>>
    /\ clock = [day |-> 0, tick |-> 0]
    /\ populated_by = "idle"
    /\ user_requests = <<>>
    /\ assignment_start_date = None

\* The arguments of a mapper have the annotated types
ArgIdle ==
    /\ contact_kind = "Individual"
    /\ contact_data_kind = "dict"

\* No XML element is being converted
XmlIdle ==
    /\ element = [tag |-> "", text |-> None, children |-> <<>>]
    /\ converted = None

\* No call of get_user_details is in progress
UserIdle ==
    /\ user_pc = "idle"
    /\ user_resp = NoResponse
    /\ user_return_data = PyNone
    /\ affiliation = PyNone
    /\ requested = <<>>
    /\ user_raised = None

\* No call of check_custom_fields is in progress
CustomIdle ==
    /\ entity = ""
    /\ response_obj = None
    /\ custom_keys = None

Init ==
    /\ config \in Configs
    /\ now \in NowTimes
    /\ site \in SiteArgs
    /\ fn \in Fns
    /\ page_limit \in PageLimits
    /\ pc = "call"
    /\ header_content = None
    /\ counter = 0
    /\ total_number_of_pages = 1
    /\ return_data = <<>>
    /\ page_number = None
    /\ sent = <<>>
    /\ served_rows = <<>>
    /\ totals_seen = {}
    /\ failed = FALSE
    /\ last_resp = NoResponse
    /\ result = PyNone
    /\ raised = None
    /\ MapIdle
    /\ FieldsIdle
    /\ RouteIdle
    /\ TwiceIdle
    /\ SourceIdle
    /\ ProBonoIdle
    /\ ArgIdle
    /\ XmlIdle
    /\ UserIdle
    /\ CustomIdle

\* check_legalserver_token(legalserver_site=site)
CheckToken ==
    /\ pc = "call"
    /\ fn = "check"
    /\ result' = LET r == CheckLegalserverToken(config, site, now)
                 IN  [PyDict({r.key}) EXCEPT !.detail = r.detail]
    /\ pc' = "returned"
    /\ UNCHANGED exceptApi
    /\ UNCHANGED <<config, now, site, fn, page_limit, header_content, counter,
                   total_number_of_pages, return_data, page_number, sent,
                   served_rows, totals_seen, failed, last_resp, raised>>

\* The first statement of every get_*, search_*, get_document,
\* get_legalserver_report_data and post_file_to_legalserver_documents_webhook:
\* header_content = get_legalserver_token(legalserver_site=legalserver_site)
CallToken ==
    /\ pc = "call"
    /\ fn # "check"
    /\ LET t == GetLegalserverToken(config, site, now)
       IN  IF ~IsNone(t.raised)
           THEN /\ raised' = t.raised
                /\ pc' = "raised"
                /\ UNCHANGED header_content
           ELSE /\ header_content' = t.value
                /\ pc' = IF fn = "search" THEN "loop" ELSE "request"
                /\ UNCHANGED raised
    /\ UNCHANGED exceptApi
    /\ UNCHANGED <<config, now, site, fn, page_limit, counter,
                   total_number_of_pages, return_data, page_number, sent,
                   served_rows, totals_seen, failed, last_resp, result>>

\* get_legalserver_response: the value it returns for the outcome of its request
GetLegalserverResponse(resp) ==
    IF RequestException(resp) # ""
    THEN ErrorDict(RequestException(resp), 0)
    ELSE IF resp.status # 200
    THEN IF resp.json THEN ErrorDict("status", resp.status)
         ELSE ErrorDict("Exception", 0)
    ELSE IF ~resp.json THEN ErrorDict("Exception", 0)
    ELSE IF IsNone(resp.data) THEN PyNone
    ELSE IF Val(resp.data).type = "dict" THEN PyDict({"uuid"})
    ELSE PyList(RowsOf(resp, 1))

\* The history of a request: what was sent and what came back
Record(resp) ==
    /\ sent' = Append(sent, page_number)
    /\ last_resp' = resp
    /\ failed' = (failed \/ ResponseFails(resp))
    /\ served_rows' = IF ResponseFails(resp) THEN served_rows
                      ELSE served_rows \o RowsOf(resp, Len(sent) + 1)
    /\ totals_seen' = IF ResponseFails(resp) THEN totals_seen
                      ELSE totals_seen \cup {resp.total}

\* get_contact_details, get_event_details, get_matter_details,
\* get_organization_details and get_task_details after the token check:
\* return get_legalserver_response(...)
GetRequest(resp) ==
    /\ pc = "request"
    /\ fn = "get"
    /\ Record(resp)
    /\ result' = GetLegalserverResponse(resp)
    /\ pc' = "returned"
    /\ UNCHANGED exceptApi
    /\ UNCHANGED <<config, now, site, fn, page_limit, header_content, counter,
                   total_number_of_pages, return_data, page_number, raised>>


\* A loop condition that forgets the page limit
WhileConditionNoLimit ==
    /\ counter < total_number_of_pages
    /\ total_number_of_pages > 0

\* A loop condition that allows one pass more than the page limit
WhileConditionLimitInclusive ==
    /\ counter < total_number_of_pages
    /\ total_number_of_pages > 0
    /\ IF IsNone(page_limit) THEN TRUE ELSE counter <= Val(page_limit)

\* loop_through_legalserver_responses: the condition of its while loop
WhileCondition ==
    /\ counter < total_number_of_pages
    /\ total_number_of_pages > 0
    /\ IF IsNone(page_limit) THEN TRUE ELSE counter < Val(page_limit)

\* return_data.extend(response.json().get("data"))
Extend(rows, resp, i) == rows \o RowsOf(resp, i)

\* An except clause that adds the error to the rows gathered so far
ExceptReturnKeepsRows(exc) ==
    Append(return_data, ErrorRow(IF exc = "Exception" THEN "Unknown" ELSE exc, 0))

\* The one-element list an except clause of the loop returns: str(e) for the
\* three requests exceptions, "Unknown" for any other exception
ExceptReturn(exc) ==
    <<ErrorRow(IF exc = "Exception" THEN "Unknown" ELSE exc, 0)>>

\* The page number is set to the count of the requests made
PageNumberOfCounter(c) == Some(c)

\* params["page_number"] = counter + 1, c being counter after "counter += 1"
PageNumberAfter(c) == Some(c + 1)

\* One pass of the while loop of loop_through_legalserver_responses
LoopIteration(resp) ==
    /\ pc = "loop"
    /\ WhileCondition
    /\ Record(resp)
    /\ IF RequestException(resp) # ""
       THEN \* an except clause returns at once
            /\ result' = PyList(ExceptReturn(RequestException(resp)))
            /\ pc' = "returned"
            /\ UNCHANGED <<return_data, total_number_of_pages, counter, page_number>>
       ELSE IF resp.status # 200
       THEN \* return_data is replaced, then the log line reads response.json()
            /\ return_data' = <<ErrorRow("status", resp.status)>>
            /\ result' = IF resp.json THEN PyList(return_data')
                         ELSE PyList(ExceptReturn("Exception"))
            /\ pc' = "returned"
            /\ UNCHANGED <<total_number_of_pages, counter, page_number>>
       ELSE IF ~resp.json \/ IsNone(resp.data)
       THEN \* response.json() or list.extend(None) raises
            /\ result' = PyList(ExceptReturn("Exception"))
            /\ pc' = "returned"
            /\ UNCHANGED <<return_data, total_number_of_pages, counter, page_number>>
       ELSE /\ return_data' = Extend(return_data, resp, Len(sent) + 1)
            /\ IF ~IsNone(resp.total)
               THEN /\ total_number_of_pages' = Val(resp.total)
                    /\ counter' = counter + 1
                    /\ page_number' = PageNumberAfter(counter + 1)
                    /\ UNCHANGED <<result, pc>>
               ELSE \* break
                    /\ result' = PyList(return_data')
                    /\ pc' = "returned"
                    /\ UNCHANGED <<total_number_of_pages, counter, page_number>>
    /\ UNCHANGED exceptApi
    /\ UNCHANGED <<config, now, site, fn, page_limit, header_content, raised>>

\* The while condition is false: return return_data
LoopReturn ==
    /\ pc = "loop"
    /\ ~WhileCondition
    /\ result' = PyList(return_data)
    /\ pc' = "returned"
    /\ UNCHANGED exceptApi
    /\ UNCHANGED <<config, now, site, fn, page_limit, header_content, counter,
                   total_number_of_pages, return_data, page_number, sent,
                   served_rows, totals_seen, failed, last_resp, raised>>

\* get_document after the token check: one request; every exception gives
\* (None, False), success gives (the_file, True)
DocumentRequest(resp) ==
    /\ pc = "request"
    /\ fn = "document"
    /\ Record(resp)
    /\ result' = [PyNone EXCEPT !.type = "tuple",
                                !.detail = IF RequestException(resp) # ""
                                           THEN "False" ELSE "True"]
    /\ pc' = "returned"
    /\ UNCHANGED exceptApi
    /\ UNCHANGED <<config, now, site, fn, page_limit, header_content, counter,
                   total_number_of_pages, return_data, page_number, raised>>

\* get_legalserver_report_data after the token check.  The report key is read
\* with get_config("legalserver").get(legalserver_site) (the site name as
\* given, not lowered), which raises before the request when that is None.
ReportRequest(resp) ==
    /\ pc = "request"
    /\ fn = "report"
    /\ IF IsNone(ConfigGet(config, site))
       THEN /\ raised' = Some("AttributeError")
            /\ pc' = "raised"
            /\ UNCHANGED <<sent, served_rows, totals_seen, failed, last_resp, result>>
       ELSE /\ Record(resp)
            /\ result' = IF RequestException(resp) # ""
                         THEN ErrorDict(RequestException(resp), 0)
                         ELSE IF resp.json THEN PyDict({"data"})
                         ELSE PyDict({})
            /\ pc' = "returned"
            /\ UNCHANGED raised
    /\ UNCHANGED exceptApi
    /\ UNCHANGED <<config, now, site, fn, page_limit, header_content, counter,
                   total_number_of_pages, return_data, page_number>>

\* post_file_to_legalserver_documents_webhook after the token check: the file
\* is opened before the request (and may be missing), then one POST
PostRequest(resp, file_exists) ==
    /\ pc = "request"
    /\ fn = "post"
    /\ IF ~file_exists
       THEN /\ raised' = Some("FileNotFoundError")
            /\ pc' = "raised"
            /\ UNCHANGED <<sent, served_rows, totals_seen, failed, last_resp, result>>
       ELSE /\ Record(resp)
            /\ result' = IF RequestException(resp) # ""
                         THEN ErrorDict(RequestException(resp), 0)
                         ELSE IF resp.status # 200
                         THEN ErrorDict("status", resp.status)
                         ELSE IF resp.json THEN PyDict({"uuid"})
                         ELSE ErrorDict("Exception", 0)
            /\ pc' = "returned"
            /\ UNCHANGED raised
    /\ UNCHANGED exceptApi
    /\ UNCHANGED <<config, now, site, fn, page_limit, header_content, counter,
                   total_number_of_pages, return_data, page_number>>

Next ==
    \/ CheckToken
    \/ CallToken
    \/ \E resp \in GetResponses : GetRequest(resp)
    \/ \E resp \in SearchResponses : LoopIteration(resp)
    \/ LoopReturn
    \/ \E resp \in GetResponses : DocumentRequest(resp)
    \/ \E resp \in GetResponses : ReportRequest(resp)
    \/ \E resp \in GetResponses, file_exists \in BOOLEAN : PostRequest(resp, file_exists)

Spec == Init /\ [][Next]_vars

\* A call that has begun goes on: the interpreter runs the next statement,
\* and requests.get comes back (with a response or a timeout)
SpecFair == Spec /\ WF_vars(Next)


----------------------------------------------------------------------------
(* The standard key lists (standard_*_keys), as the source gives them *)

\* standard_adverse_party_keys() (lines 6394-6453): 46 keys
standard_adverse_party_keys == {
    "first", "last", "middle", "suffix", "organization_name",
    "business_type", "date_of_birth", "approximate_dob",
    "relationship_type", "uuid", "language", "height", "weight",
    "eye_color", "hair_color", "race", "drivers_license", "visa_number",
    "immigration_status", "marital_status", "government_generated_id",
    "address_party", "phone_home", "phone_home_note", "phone_business",
    "phone_business_note", "phone_mobile", "phone_mobile_note",
    "phone_fax", "phone_fax_note", "adverse_party_alert",
    "adverse_party_note", "id", "active", "email", "employer", "addr2",
    "apt_num", "city", "county", "gender", "ssn", "state",
    "street_address", "street_address_2", "zip_code" }

\* standard_charges_keys() (lines 6456-6490): 22 keys
standard_charges_keys == {
    "id", "charge_date", "arraignment_date", "matter_id",
    "matter_identification_number", "warrant_number", "charge_category",
    "statute_number", "penalty_class", "lookup_charge",
    "charge_outcome_id", "disposition_date", "top_charge", "note",
    "previous_charge_id", "charge_reduction_date", "charge_tag_id",
    "issue_note", "dynamic_process", "charge_uuid", "external_id",
    "charge_name" }

\* standard_contact_keys() (lines 6523-6574): 39 keys
standard_contact_keys == {
    "id", "uuid", "first", "middle", "last", "suffix", "type", "active",
    "donation_name", "salutation", "email", "phone_home",
    "phone_home_note", "phone_business", "phone_business_note",
    "phone_fax", "phone_fax_note", "phone_other", "phone_other_note",
    "phone_mobile", "phone_mobile_note",
    "bind_work_address_to_organization", "work_address", "address_work",
    "bar_number", "member_good_standing", "date_created", "language",
    "email_allow", "mail_allow", "gender", "office",
    "user_profile_exists", "user_uuid", "dynamic_process", "contact_uuid",
    "case_contact_uuid", "contact_types", "case_contact_type" }

\* standard_document_keys() (lines 6577-6606): 17 keys
standard_document_keys == {
    "id", "uuid", "name", "title", "mime_type", "virus_free",
    "date_create", "download_url", "virus_scanned", "disk_file_size",
    "storage_backend", "type", "programs", "folder", "funding_code",
    "hyperlink", "shared_with_sj_client" }

\* standard_event_keys() (lines 6609-6642): 21 keys
standard_event_keys == {
    "id", "title", "location", "front_desk", "broadcast_event", "court",
    "courtroom", "event_type", "attendees", "judge", "dynamic_process",
    "start_datetime", "end_datetime", "all_day_event", "program",
    "office", "event_uuid", "dynamic_process_id", "outreaches",
    "private_event", "external_id" }

\* standard_litigation_keys() (lines 6645-6685): 27 keys
standard_litigation_keys == {
    "id", "court_text", "court_id", "court_number", "matter_id",
    "matter_identification_number", "caption", "docket",
    "cause_of_action", "judge", "adverse_party", "notes", "outcome",
    "outcome_date", "default_date", "date_served",
    "date_proceeding_initiated", "date_proceeding_concluded",
    "dynamic_process", "application_filing_date", "court_calendar",
    "lsc_disclosure_required", "litigation_relationship", "filing_type",
    "number_of_people_served", "litigation_uuid", "external_id" }

\* standard_matter_keys() (lines 6688-6893): 193 keys
standard_matter_keys == {
    "a_number", "additional_assistance", "additional_names",
    "adverse_parties", "adverse_party_conflict_status",
    "api_integration_preference", "ap_conflict_waived",
    "asset_assistance", "asset_eligible", "assignments",
    "associated_cases", "birth_city", "birth_country", "case_disposition",
    "case_email_address", "case_exclusions", "case_id", "case_number",
    "case_profile_url", "case_restrictions", "case_status", "case_title",
    "case_type", "cause_number", "charges", "citizenship",
    "citizenship_country", "client_address_home",
    "client_address_mailing", "client_approved_transfer",
    "client_conflict_status", "client_email_address", "client_full_name",
    "client_gender", "client_id", "close_reason", "conflict_status_note",
    "conflict_status_note_ap", "conflict_waived", "contacts",
    "contractor_work_orders", "country_of_origin", "county_of_dispute",
    "county_of_residence", "court_tracking_numbers",
    "created_by_integration_or_api", "current_living_situation",
    "date_closed", "date_of_appointment_retention", "date_of_birth",
    "date_opened", "date_rejected", "days_open", "disabled", "dob_status",
    "documents", "drivers_license", "dropbox_folder_id",
    "dynamic_process", "employment_status", "ethnicity", "events",
    "exclude_from_search_results", "external_id", "fax_phone",
    "fax_phone_note", "fee_generating", "first", "google_drive_folder_id",
    "highest_education", "home_phone", "home_phone_note", "how_referred",
    "hud_ami_category", "hud_area_median_income_percentage",
    "hud_entity_poverty_band", "hud_statewide_median_income_percentage",
    "hud_statewide_poverty_band", "impact", "immigration_status",
    "income_change_significantly", "income_change_type",
    "income_eligible", "incomes", "institutionalized",
    "institutionalized_at", "intake_date", "intake_office",
    "intake_program", "intake_type", "intake_user", "interpreter",
    "is_group", "is_lead_case", "is_this_a_prescreen", "language",
    "languages", "last", "lead_case", "legal_problem_category",
    "legal_problem_code", "level_of_expertise", "litigations",
    "lsc_eligible", "marital_status", "matter_uuid", "middle",
    "military_service", "military_status", "mobile_phone",
    "mobile_phone_note", "modified_by_integration_or_api",
    "non_adverse_parties", "notes", "number_of_adults",
    "number_of_children", "online_intake_payload", "organization_name",
    "other_phone", "other_phone_note", "pai_case",
    "percentage_of_poverty", "preferred_phone_number",
    "preferred_spoken_language", "preferred_written_language",
    "prescreen_date", "prescreen_office", "prescreen_program",
    "prescreen_screening_status", "prescreen_user", "priorities",
    "prior_client", "pro_bono_appropriate_volunteer",
    "pro_bono_engagement_type", "pro_bono_expiration_date",
    "pro_bono_interest_cc", "pro_bono_opportunity_available_date",
    "pro_bono_opportunity_cc", "pro_bono_opportunity_county",
    "pro_bono_opportunity_court_and_filing_fee_information",
    "pro_bono_opportunity_guardian_ad_litem_certification_needed",
    "pro_bono_opportunity_note", "pro_bono_opportunity_paupers_eligible",
    "pro_bono_opportunity_placement_date",
    "pro_bono_opportunity_special_issues", "pro_bono_opportunity_status",
    "pro_bono_opportunity_summary",
    "pro_bono_opportunity_summary_of_upcoming_dates",
    "pro_bono_opportunity_summary_of_work_needed",
    "pro_bono_skills_developed", "pro_bono_time_commitment",
    "pro_bono_urgent", "race", "referring_organizations", "rejected",
    "rejection_reason", "rural", "school_status", "second_language",
    "sending_site_identification_number", "services",
    "sharepoint_site_library", "sharepoint_tracer_document_id",
    "simplejustice_opportunity_community",
    "simplejustice_opportunity_helped_community",
    "simplejustice_opportunity_legal_topic",
    "simplejustice_opportunity_skill_type", "special_characteristics",
    "special_legal_problem_code", "ssi_eatra",
    "ssi_months_client_has_received_welfare_payments",
    "ssi_section8_housing_type", "ssi_welfare_case_num",
    "ssi_welfare_status", "ssn", "ssn_status", "suffix", "tasks",
    "transfer_reject_notes", "transfer_reject_reason", "trial_date",
    "veteran", "victim_of_domestic_violence", "visa_number", "work_phone",
    "work_phone_note", "prefix", "home_phone_safe", "mobile_phone_safe",
    "other_phone_safe", "work_phone_safe", "fax_phone_safe", "pronouns" }

\* standard_non_adverse_party_keys() (lines 6896-6955): 46 keys
standard_non_adverse_party_keys == {
    "first", "last", "middle", "suffix", "date_of_birth",
    "approximate_dob", "relationship_type", "uuid", "language", "gender",
    "ssn", "country_of_birth", "race", "veteran", "disabled", "hud_race",
    "hud_9902_ethnicity", "hud_disabling_condition", "visa_number",
    "immigration_status", "citizenship_status", "marital_status",
    "government_generated_id", "address_party", "phone_home",
    "phone_home_note", "phone_business", "phone_business_note",
    "phone_mobile", "phone_mobile_note", "phone_fax", "phone_fax_note",
    "family_member", "household_member", "non_adverse_party",
    "potential_conflict", "id", "active", "email", "addr2", "apt_num",
    "city", "county", "state", "street_address", "zip_code" }

\* standard_organization_affiliation_keys() (lines 6958-6983): 12 keys
standard_organization_affiliation_keys == {
    "id", "organization", "organization_date_start",
    "organization_date_end", "organization_position",
    "organization_contact", "organization_contact_type", "assistant",
    "assistant_phone", "judicial_assistant", "judicial_assistant_phone",
    "organization_affiliation_uuid" }

\* standard_organization_keys() (lines 6986-7022): 24 keys
standard_organization_keys == {
    "id", "name", "abbreviation", "description", "types", "street",
    "street_2", "city", "state", "phone", "fax", "referral_contact_phone",
    "referral_contact_email", "website", "is_master", "active",
    "date_org_entered", "external_site_uuids", "uuid",
    "external_unique_id", "parent_organization", "dynamic_process",
    "documents", "zip" }

\* standard_services_keys() (lines 7025-7056): 19 keys
standard_services_keys == {
    "id", "matter", "matter_identification_number", "title", "type",
    "start_date", "end_date", "closed_by", "note", "closed", "active",
    "dynamic_process", "decision", "funding_code", "service_uuid",
    "charges", "matter_id", "external_id", "uscis_receipt_number" }

\* standard_task_keys() (lines 7059-7093): 22 keys
standard_task_keys == {
    "id", "active", "module", "title", "list_date", "due_date",
    "task_type", "deadline", "deadline_type", "private", "completed",
    "completed_by", "completed_date", "users", "dynamic_process_id",
    "is_this_a_case_alert", "office", "program", "statute_of_limitations",
    "created_by", "created_date", "task_uuid" }

\* standard_user_keys() (lines 7096-7172): 64 keys
standard_user_keys == {
    "id", "user_uuid", "first", "middle", "last", "email", "email_allow",
    "login", "active", "current", "contact_active", "types", "role",
    "gender", "race", "dob", "office", "program", "date_start",
    "date_end", "dynamic_process", "date_graduated", "date_bar_join",
    "bar_number", "date_joined_panel", "external_unique_id",
    "additional_programs", "additional_offices", "external_guid",
    "highest_court_admitted", "languages", "phone_business", "phone_fax",
    "phone_home", "phone_mobile", "phone_other", "practice_state",
    "member_good_standing", "recruitment", "salutation",
    "school_attended", "bind_work_address_to_organization", "hourly_rate",
    "counties", "contact_types", "address_home", "address_work",
    "organization_affiliation", "address_mailing", "adp_number",
    "contact_uuid", "documents", "dynamic_process_id",
    "need_password_change_next_login", "preferred_phone", "snum",
    "suffix", "title", "vendor_id", "contractor_doing_business_as",
    "organization_affiliations", "contractor_assignment_types",
    "supervisors", "supervisees" }

----------------------------------------------------------------------------
(* The populate_* mappers *)

\* The JSON values of an input object.  A nested dictionary is represented
\* by what the mappers read from it: name is its "lookup_value_name" entry,
\* None when that entry is missing or null.
JNull == [t |-> "null", s |-> "", name |-> None]
JStr(x) == [t |-> "str", s |-> x, name |-> None]
JTrue == [t |-> "bool", s |-> "True", name |-> None]
JDict(n) == [t |-> "dict", s |-> "", name |-> n]

\* d.get(k): the value under k, None when k is not a key of d
Get(d, k) == IF k \in DOMAIN d THEN d[k] ELSE JNull

\* d[k] = v on a dictionary
Put(d, k, v) == [x \in (DOMAIN d) \cup {k} |-> IF x = k THEN v ELSE d[x]]

\* obj.a = v
SetAttr(obj, a, v) == [obj EXCEPT !.attrs = Put(@, a, v)]

\* v.get("lookup_value_name") on a dictionary v
LookupValueName(v) == IF IsNone(v.name) THEN JNull ELSE JStr(Val(v.name))

\* {key: value for key, value in data.items() if key not in standard_key_list}
CustomFields(data, standard_key_list) ==
    [key \in {k \in DOMAIN data : k \notin standard_key_list} |-> data[key]]

\* One statement of a mapper, by its form in the source
Rule(kind, key, attr) == [kind |-> kind, key |-> key, attr |-> attr]

\* The outcome of one statement: the object, the exception raised (None if
\* none), and whether the function returned at this statement
Outcome(obj, exc, stop) == [obj |-> obj, raised |-> exc, stop |-> stop]

\* What one statement does to the object being populated.
\*   get        obj.attr = data.get(key)
\*   plain      if data.get(key) is not None: obj.attr = data.get(key)
\*   default    as plain, else: obj.attr = ""
\*   lookup     if data.get(key) is not None and isinstance(data.get(key), dict):
\*                  if data[key].get("lookup_value_name") is not None:
\*                      obj.attr = data[key].get("lookup_value_name")
\*   subscript  if data[key].get("lookup_value_name") is not None
\*                      and isinstance(data.get(key), dict): obj.attr = ...
\*              data[key] raises KeyError when key is absent, and .get
\*              raises AttributeError when data[key] is not a dictionary
\*   unchecked  if data.get(key) is not None:
\*                  if data[key].get("lookup_value_name") is not None [...]:
\*                      obj.attr = data[key].get("lookup_value_name")
\*              .get raises AttributeError when data[key] is not a dictionary
\*   error      if data.get("error") is not None: obj.has_error = True;
\*                  obj.error_message = str(data.get("error")); return obj
\*   bucket     obj.custom_fields = the comprehension over data
\*   complete   obj.complete = True
Statement(rule, data, obj, standard_key_list) ==
    LET v == Get(data, rule.key)
        same == Outcome(obj, None, FALSE)
    IN  CASE rule.kind = "get" ->
                Outcome(SetAttr(obj, rule.attr, v), None, FALSE)
          [] rule.kind = "plain" ->
                IF v # JNull
                THEN Outcome(SetAttr(obj, rule.attr, v), None, FALSE)
                ELSE same
          [] rule.kind = "default" ->
                IF v # JNull
                THEN Outcome(SetAttr(obj, rule.attr, v), None, FALSE)
                ELSE Outcome(SetAttr(obj, rule.attr, JStr("")), None, FALSE)
          [] rule.kind = "lookup" ->
                IF v # JNull /\ v.t = "dict" /\ LookupValueName(v) # JNull
                THEN Outcome(SetAttr(obj, rule.attr, LookupValueName(v)), None, FALSE)
                ELSE same
          [] rule.kind = "subscript" ->
                IF rule.key \notin DOMAIN data
                THEN Outcome(obj, Some("KeyError"), FALSE)
                ELSE IF v.t # "dict"
                THEN Outcome(obj, Some("AttributeError"), FALSE)
                ELSE IF LookupValueName(v) # JNull
                THEN Outcome(SetAttr(obj, rule.attr, LookupValueName(v)), None, FALSE)
                ELSE same
          [] rule.kind = "unchecked" ->
                IF v = JNull
                THEN same
                ELSE IF v.t # "dict"
                THEN Outcome(obj, Some("AttributeError"), FALSE)
                ELSE IF LookupValueName(v) # JNull
                THEN Outcome(SetAttr(obj, rule.attr, LookupValueName(v)), None, FALSE)
                ELSE same
          [] rule.kind = "error" ->
                IF v # JNull
                THEN Outcome(SetAttr(SetAttr(obj, "has_error", JTrue),
                                     "error_message", v), None, TRUE)
                ELSE same
          [] rule.kind = "bucket" ->
                Outcome([obj EXCEPT !.custom_fields =
                            Some(CustomFields(data, standard_key_list))],
                        None, FALSE)
          [] rule.kind = "complete" ->
                Outcome(SetAttr(obj, "complete", JTrue), None, FALSE)

\* The statements of a mapper in order, up to the first that raises or returns
RECURSIVE Body(_, _, _, _)
Body(rules, data, obj, standard_key_list) ==
    IF rules = <<>>
    THEN Outcome(obj, None, TRUE)
    ELSE LET r == Statement(Head(rules), data, obj, standard_key_list)
         IN  IF ~IsNone(r.raised) \/ r.stop
             THEN r
             ELSE Body(Tail(rules), data, r.obj, standard_key_list)

\* The values a key of an input object takes in the model (besides being
\* absent): a text, a text or null, or each shape of a lookup field
Text(x) == {JStr(x)}
Nullable(x) == {JNull, JStr(x)}
Shapes == {JNull, JStr("x"), JDict(None), JDict(Some("n"))}
KeySpec(key, vals) == [key |-> key, vals |-> vals]

\* A mapper: its statements in source order (those reading the keys of the
\* model's inputs), its standard key list, the keys of the model's inputs,
\* and whether it populates a new object (appendObject) or the one passed in
Mapper(rules, standard, keys, fresh) ==
    [rules |-> rules, standard |-> standard, keys |-> keys, fresh |-> fresh]

\* populate_case: lines 1737, 1738, 1744, 1823, 1842, 1873, 1879, 2371-2380
populate_case ==
    Mapper(<<Rule("get", "uuid", "uuid"),
             Rule("plain", "case_number", "case_number"),
             Rule("lookup", "case_disposition", "case_disposition"),
             Rule("subscript", "intake_program", "intake_program"),
             Rule("subscript", "prescreen_screening_status", "prescreen_screening_status"),
             Rule("subscript", "legal_problem_code", "legal_problem_code"),
             Rule("subscript", "legal_problem_category", "legal_problem_category"),
             Rule("bucket", "", "custom_fields")>>,
           standard_matter_keys,
           <<KeySpec("uuid", Text("abc")),
             KeySpec("first", Text("Jane")),
             KeySpec("custom_field_1", Text("x")),
             KeySpec("case_number", Nullable("24-0001")),
             KeySpec("case_disposition", Shapes),
             KeySpec("intake_program", Shapes),
             KeySpec("prescreen_screening_status", Shapes),
             KeySpec("legal_problem_code", Shapes),
             KeySpec("legal_problem_category", Shapes)>>,
           FALSE)

\* populate_charges, for one item: lines 2430, 2463, 2471, 2510-2519, 2521
populate_charges ==
    Mapper(<<Rule("get", "charge_uuid", "uuid"),
             Rule("plain", "charge_name", "charge_name"),
             Rule("unchecked", "previous_charge_id", "previous_charge_id"),
             Rule("bucket", "", "custom_fields"),
             Rule("complete", "", "complete")>>,
           standard_charges_keys,
           <<KeySpec("charge_uuid", Text("abc")),
             KeySpec("charge_name", Nullable("theft")),
             KeySpec("previous_charge_id", Shapes),
             KeySpec("custom_field_1", Text("x"))>>,
           TRUE)

\* populate_documents, for one item: lines 3316, 3319, 3350, 3376
populate_documents ==
    Mapper(<<Rule("get", "uuid", "uuid"),
             Rule("default", "name", "name"),
             Rule("unchecked", "type", "type"),
             Rule("complete", "", "complete")>>,
           standard_document_keys,
           <<KeySpec("uuid", Text("abc")),
             KeySpec("name", Nullable("a.pdf")),
             KeySpec("type", Shapes),
             KeySpec("custom_field_1", Text("x"))>>,
           TRUE)

\* populate_adverse_parties, for one item: lines 1416, 1439, 1443, 1553-1563, 1566
populate_adverse_parties ==
    Mapper(<<Rule("get", "uuid", "uuid"),
             Rule("plain", "date_of_birth", "date_of_birth"),
             Rule("lookup", "relationship_type", "relationship_type"),
             Rule("bucket", "", "custom_fields"),
             Rule("complete", "", "complete")>>,
           standard_adverse_party_keys,
           <<KeySpec("uuid", Text("abc")),
             KeySpec("date_of_birth", Nullable("2000-01-01")),
             KeySpec("relationship_type", Shapes),
             KeySpec("custom_field_1", Text("x"))>>,
           TRUE)

\* populate_non_adverse_parties, for one item: lines 4225, 4241, 4245, 4390-4399
populate_non_adverse_parties ==
    Mapper(<<Rule("get", "uuid", "uuid"),
             Rule("plain", "date_of_birth", "date_of_birth"),
             Rule("lookup", "relationship_type", "relationship_type"),
             Rule("bucket", "", "custom_fields"),
             Rule("complete", "", "complete")>>,
           standard_non_adverse_party_keys,
           <<KeySpec("uuid", Text("abc")),
             KeySpec("date_of_birth", Nullable("2000-01-01")),
             KeySpec("relationship_type", Shapes),
             KeySpec("custom_field_1", Text("x"))>>,
           TRUE)

\* populate_contact_data: lines 3157-3161, 3163, 3170, 3176, 3218-3228, 3232
populate_contact_data ==
    Mapper(<<Rule("error", "error", "error_message"),
             Rule("get", "contact_uuid", "uuid"),
             Rule("plain", "first", "name.first"),
             Rule("lookup", "case_contact_type", "type"),
             Rule("bucket", "", "custom_fields"),
             Rule("complete", "", "complete")>>,
           standard_contact_keys,
           <<KeySpec("error", Text("not found")),
             KeySpec("contact_uuid", Text("abc")),
             KeySpec("first", Nullable("Jane")),
             KeySpec("case_contact_type", Shapes),
             KeySpec("custom_field_1", Text("x"))>>,
           FALSE)

\* populate_event_data: lines 3402, 3405, 3422, 3489-3496
populate_event_data ==
    Mapper(<<Rule("get", "event_uuid", "uuid"),
             Rule("plain", "title", "title"),
             Rule("lookup", "event_type", "event_type"),
             Rule("bucket", "", "custom_fields")>>,
           standard_event_keys,
           <<KeySpec("event_uuid", Text("abc")),
             KeySpec("title", Nullable("hearing")),
             KeySpec("event_type", Shapes),
             KeySpec("custom_field_1", Text("x"))>>,
           FALSE)

\* populate_litigations, for one item: lines 3957, 4035, 4049-4058, 4060
populate_litigations ==
    Mapper(<<Rule("plain", "court_text", "court_text"),
             Rule("lookup", "filing_type", "filing_type"),
             Rule("bucket", "", "custom_fields"),
             Rule("complete", "", "complete")>>,
           standard_litigation_keys,
           <<KeySpec("court_text", Nullable("county court")),
             KeySpec("filing_type", Shapes),
             KeySpec("uuid", Text("abc")),
             KeySpec("custom_field_1", Text("x"))>>,
           TRUE)

\* populate_organization_data: lines 4082, 4089, 4168-4177
populate_organization_data ==
    Mapper(<<Rule("get", "uuid", "uuid"),
             Rule("plain", "abbreviation", "abbreviation"),
             Rule("bucket", "", "custom_fields")>>,
           standard_organization_keys,
           <<KeySpec("uuid", Text("abc")),
             KeySpec("abbreviation", Nullable("LS")),
             KeySpec("street_2", Nullable("Suite 5")),
             KeySpec("custom_field_1", Text("x"))>>,
           FALSE)

\* populate_services, for one item: lines 4648, 4651, 4655, 4700-4709, 4711
populate_services ==
    Mapper(<<Rule("get", "uuid", "uuid"),
             Rule("plain", "title", "title"),
             Rule("lookup", "type", "type"),
             Rule("bucket", "", "custom_fields"),
             Rule("complete", "", "complete")>>,
           standard_services_keys,
           <<KeySpec("uuid", Text("abc")),
             KeySpec("title", Nullable("advice")),
             KeySpec("type", Shapes),
             KeySpec("custom_field_1", Text("x"))>>,
           TRUE)

\* populate_task_data: lines 4734, 4737, 4745, 4830-4837
populate_task_data ==
    Mapper(<<Rule("get", "task_uuid", "uuid"),
             Rule("plain", "title", "title"),
             Rule("lookup", "task_type", "task_type"),
             Rule("bucket", "", "custom_fields")>>,
           standard_task_keys,
           <<KeySpec("task_uuid", Text("abc")),
             KeySpec("title", Nullable("call client")),
             KeySpec("task_type", Shapes),
             KeySpec("custom_field_1", Text("x"))>>,
           FALSE)

\* populate_user_data: lines 4903, 4924, 4940, 5302-5309
populate_user_data ==
    Mapper(<<Rule("get", "user_uuid", "user_uuid"),
             Rule("plain", "title", "title"),
             Rule("lookup", "role", "role"),
             Rule("bucket", "", "custom_fields")>>,
           standard_user_keys,
           <<KeySpec("user_uuid", Text("abc")),
             KeySpec("title", Nullable("attorney")),
             KeySpec("role", Shapes),
             KeySpec("custom_field_1", Text("x"))>>,
           FALSE)

Mappers ==
    {"populate_case", "populate_charges", "populate_documents",
     "populate_adverse_parties", "populate_non_adverse_parties",
     "populate_contact_data", "populate_event_data", "populate_litigations",
     "populate_organization_data", "populate_services", "populate_task_data",
     "populate_user_data"}

MapperOf(m) ==
    CASE m = "populate_case" -> populate_case
      [] m = "populate_charges" -> populate_charges
      [] m = "populate_documents" -> populate_documents
      [] m = "populate_adverse_parties" -> populate_adverse_parties
      [] m = "populate_non_adverse_parties" -> populate_non_adverse_parties
      [] m = "populate_contact_data" -> populate_contact_data
      [] m = "populate_event_data" -> populate_event_data
      [] m = "populate_litigations" -> populate_litigations
      [] m = "populate_organization_data" -> populate_organization_data
      [] m = "populate_services" -> populate_services
      [] m = "populate_task_data" -> populate_task_data
      [] m = "populate_user_data" -> populate_user_data

\* The input objects of the model: every dictionary over a subset of the
\* given keys, each present key with one of its values
RECURSIVE Dicts(_)
Dicts(keys) ==
    IF keys = <<>>
    THEN {EmptyDict}
    ELSE LET rest == Dicts(Tail(keys))
             h == Head(keys)
         IN  rest \cup {Put(d, h.key, v) : d \in rest, v \in h.vals}

\* The object handed to a mapper.  A new object (appendObject, or a new
\* DAObject) has its instanceName; an object populated before also has
\* attributes and custom fields of that earlier call.
NewObject ==
    [attrs |-> Put(EmptyDict, "instanceName", JStr("obj")), custom_fields |-> None]
UsedObject ==
    [attrs |-> Put(Put(NewObject.attrs, "case_number", JStr("23-0009")),
                   "intake_program", JStr("Housing")),
     custom_fields |-> Some(Put(EmptyDict, "old_field_7", JStr("y")))]
Objects(m) ==
    IF MapperOf(m).fresh THEN {NewObject}
    ELSE IF m = "populate_case" THEN {NewObject, UsedObject}
    ELSE {NewObject}

\* No API call is in progress
ApiIdle ==
    /\ config = [defined |-> FALSE, keys |-> {}, entry |-> None]
    /\ now = 0
    /\ site = "demo"
    /\ fn = "none"
    /\ page_limit = None
    /\ pc = "idle"
    /\ header_content = None
    /\ counter = 0
    /\ total_number_of_pages = 1
    /\ return_data = <<>>
    /\ page_number = None
    /\ sent = <<>>
    /\ served_rows = <<>>
    /\ totals_seen = {}
    /\ failed = FALSE
    /\ last_resp = NoResponse
    /\ result = PyNone
    /\ raised = None

\* The types of the values a caller passes to populate_contact_data as
\* contact and as contact_data.  A DAObject is one that is not an Individual;
\* with an argument of another type than the annotated one the model holds
\* the attributes set on contact in destination and no input dictionary.
ContactKinds == {"Individual", "DAObject", "dict", "str"}
ContactDataKinds == {"dict", "list", "None"}

InitMap ==
    /\ ApiIdle
    /\ FieldsIdle
    /\ RouteIdle
    /\ TwiceIdle
    /\ SourceIdle
    /\ ProBonoIdle
    /\ XmlIdle
    /\ UserIdle
    /\ CustomIdle
    /\ mapper \in Mappers
    /\ IF mapper = "populate_contact_data"
       THEN contact_kind \in ContactKinds /\ contact_data_kind \in ContactDataKinds
       ELSE ArgIdle
    /\ IF ArgIdle
       THEN /\ legalserver_data \in Dicts(MapperOf(mapper).keys)
            /\ destination \in Objects(mapper)
       ELSE /\ legalserver_data = EmptyDict
            /\ destination = NewObject
    /\ before = destination
    /\ map_pc = "call"
    /\ map_raised = None

\* A call of the mapper m on the input and the destination object: its
\* statements run in order; an exception leaves the assignments made so far
Populate(m) ==
    /\ map_pc = "call"
    /\ LET r == Body(MapperOf(m).rules, legalserver_data, destination,
                     MapperOf(m).standard)
       IN  /\ destination' = r.obj
           /\ map_raised' = r.raised
           /\ map_pc' = IF IsNone(r.raised) THEN "returned" ELSE "raised"
    /\ UNCHANGED <<mapper, legalserver_data, before>>
    /\ UNCHANGED exceptMap

\* populate_contact_data called with an argument of another type: the
\* TypeError is raised inside the try block of the function and caught by its
\* "except Exception", which sets has_error and error_message on a contact
\* that is a dict, an Individual or a DAObject (on a dict the assignment of
\* the attribute raises AttributeError) and returns the contact
TypeErrorHandled(message) ==
    /\ map_pc = "call"
    /\ IF contact_kind \in {"Individual", "DAObject"}
       THEN /\ destination' = SetAttr(SetAttr(destination, "has_error", JTrue),
                                      "error_message", JStr(message))
            /\ map_raised' = None
            /\ map_pc' = "returned"
       ELSE IF contact_kind = "dict"
       THEN /\ map_raised' = Some("AttributeError")
            /\ map_pc' = "raised"
            /\ UNCHANGED destination
       ELSE /\ map_raised' = None
            /\ map_pc' = "returned"
            /\ UNCHANGED destination
    /\ UNCHANGED <<mapper, legalserver_data, before>>
    /\ UNCHANGED exceptMap

\* The calls of the mappers
PopulateCase == mapper = "populate_case" /\ Populate("populate_case")
PopulateCharges == mapper = "populate_charges" /\ Populate("populate_charges")
PopulateDocuments == mapper = "populate_documents" /\ Populate("populate_documents")
PopulateAdverseParties == mapper = "populate_adverse_parties" /\ Populate("populate_adverse_parties")
PopulateNonAdverseParties == mapper = "populate_non_adverse_parties" /\ Populate("populate_non_adverse_parties")
PopulateContactData ==
    /\ mapper = "populate_contact_data"
    /\ IF ArgIdle
       THEN Populate("populate_contact_data")
       ELSE TypeErrorHandled(IF contact_data_kind # "dict"
                             THEN "contact_data must be a dictionary"
                             ELSE "contact must be an Individual object")
PopulateEventData == mapper = "populate_event_data" /\ Populate("populate_event_data")
PopulateLitigations == mapper = "populate_litigations" /\ Populate("populate_litigations")
PopulateOrganizationData == mapper = "populate_organization_data" /\ Populate("populate_organization_data")
PopulateServices == mapper = "populate_services" /\ Populate("populate_services")
PopulateTaskData == mapper = "populate_task_data" /\ Populate("populate_task_data")
PopulateUserData == mapper = "populate_user_data" /\ Populate("populate_user_data")

NextMap ==
    \/ PopulateCase
    \/ PopulateCharges
    \/ PopulateDocuments
    \/ PopulateAdverseParties
    \/ PopulateNonAdverseParties
    \/ PopulateContactData
    \/ PopulateEventData
    \/ PopulateLitigations
    \/ PopulateOrganizationData
    \/ PopulateServices
    \/ PopulateTaskData
    \/ PopulateUserData

SpecMap == InitMap /\ [][NextMap]_vars

----------------------------------------------------------------------------
(* check_for_valid_fields *)

\* The longest source_list of the model
MaxFields == 2

\* The field names of the model: blank entries, standard keys, names of the
\* custom-field form and names that are neither
FieldNames ==
    {"", " ", "case_number", "title", "street_2",
     "foo_1", "bogus", "_1", "foo_", "foo-bar_1",
     "foo_1\n", "a1_22"}

\* The characters of a field name
Chars(s) ==
    CASE s = "" -> <<>>
      [] s = " " -> <<" ">>
      [] s = "case_number" -> <<"c", "a", "s", "e", "_", "n", "u", "m", "b", "e", "r">>
      [] s = "title" -> <<"t", "i", "t", "l", "e">>
      [] s = "street_2" -> <<"s", "t", "r", "e", "e", "t", "_", "2">>
      [] s = "foo_1" -> <<"f", "o", "o", "_", "1">>
      [] s = "bogus" -> <<"b", "o", "g", "u", "s">>
      [] s = "_1" -> <<"_", "1">>
      [] s = "foo_" -> <<"f", "o", "o", "_">>
      [] s = "foo-bar_1" -> <<"f", "o", "o", "-", "b", "a", "r", "_", "1">>
      [] s = "foo_1\n" -> <<"f", "o", "o", "_", "1", "\n">>
      [] s = "a1_22" -> <<"a", "1", "_", "2", "2">>
      [] s = "street_address_2" -> <<"s", "t", "r", "e", "e", "t", "_", "a", "d", "d", "r", "e", "s", "s", "_", "2">>
      [] s = "addr2" -> <<"a", "d", "d", "r", "2">>
      [] s = "hud_9902_ethnicity" -> <<"h", "u", "d", "_", "9", "9", "0", "2", "_", "e", "t", "h", "n", "i", "c", "i", "t", "y">>
      [] s = "ssi_section8_housing_type" -> <<"s", "s", "i", "_", "s", "e", "c", "t", "i", "o", "n", "8", "_", "h", "o", "u", "s", "i", "n", "g", "_", "t", "y", "p", "e">>

Letters ==
    {"a", "b", "c", "d", "e", "f", "g", "h", "i", "l", "m", "n", "o", "p",
     "r", "s", "t", "u", "y"}
Digits == {"0", "1", "2", "3", "4", "5", "6", "7", "8", "9"}
Whitespace == {" ", "\n"}

\* str.strip() gives the empty string: every character is whitespace
StripIsEmpty(s) == \A i \in 1..Len(Chars(s)) : Chars(s)[i] \in Whitespace

\* has_valid_items(field_list)
has_valid_items(field_list) ==
    /\ ~IsNone(field_list)
    /\ \E i \in 1..Len(Val(field_list)) : ~StripIsEmpty(Val(field_list)[i])

\* [a-zA-Z0-9_]
WordChar(c) == c \in Letters \cup Digits \cup {"_"}

\* The positions of cs at which a match of [a-zA-Z0-9_]+ that starts at
\* position from may end (the character after the match)
RECURSIVE WordRun(_, _)
WordRun(cs, from) ==
    IF from > Len(cs) \/ ~WordChar(cs[from])
    THEN {}
    ELSE {from + 1} \cup WordRun(cs, from + 1)

\* The same for \d+
RECURSIVE DigitRun(_, _)
DigitRun(cs, from) ==
    IF from > Len(cs) \/ cs[from] \notin Digits
    THEN {}
    ELSE {from + 1} \cup DigitRun(cs, from + 1)

\* $ at position p: the end of the string, or just before a final newline
AtEnd(cs, p) == p = Len(cs) + 1 \/ (p = Len(cs) /\ cs[p] = "\n")

\* re.compile(r"^[a-zA-Z0-9_]+_\d+$").search(field) with the search let
\* start at any position: what the pattern finds without its ^
PatternSearchAnywhere(cs) ==
    \E start \in 1..Len(cs) :
        \E p \in WordRun(cs, start) :
            /\ p <= Len(cs)
            /\ cs[p] = "_"
            /\ \E e \in DigitRun(cs, p + 1) : AtEnd(cs, e)

\* re.compile(r"^[a-zA-Z0-9_]+_\d+$").search(field): ^ holds the match to
\* the start of the string
PatternSearch(cs) ==
    \E p \in WordRun(cs, 1) :
        /\ p <= Len(cs)
        /\ cs[p] = "_"
        /\ \E e \in DigitRun(cs, p + 1) : AtEnd(cs, e)

\* The module names check_for_valid_fields recognises; the module names of
\* the model are these, one of them capitalised, and those its callers pass
RecognisedModules ==
    {"matters", "contacts", "events", "tasks", "documents", "organizations",
     "organization_affiliations", "services", "litigations", "charges",
     "adverse_parties", "non_adverse_parties"}

\* The module names the get_* and search_* functions pass to
\* check_for_valid_fields
CallerModules ==
    {"contacts", "events", "matters", "organizations", "tasks", "documents",
     "additional_names", "adverse_parties", "assignments", "charges",
     "matter_contacts", "incomes", "litigations", "notes",
     "non_adverse_parties", "services", "users"}

Modules == RecognisedModules \cup CallerModules \cup {"Matters"}

\* The if / elif chain of check_for_valid_fields over module.lower()
StandardKeysOf(m) ==
    CASE m = "matters" -> standard_matter_keys
      [] m = "contacts" -> standard_contact_keys
      [] m = "events" -> standard_event_keys
      [] m = "tasks" -> standard_task_keys
      [] m = "documents" -> standard_document_keys
      [] m = "organizations" -> standard_organization_keys
      [] m = "organization_affiliations" -> standard_organization_affiliation_keys
      [] m = "services" -> standard_services_keys
      [] m = "litigations" -> standard_litigation_keys
      [] m = "charges" -> standard_charges_keys
      [] m = "adverse_parties" -> standard_adverse_party_keys
      [] m = "non_adverse_parties" -> standard_non_adverse_party_keys

\* The loop of check_for_valid_fields over the fields of source_list
RECURSIVE FieldsLoop(_, _)
FieldsLoop(fields, standard_keys) ==
    IF fields = <<>>
    THEN "True"
    ELSE LET field == Head(fields)
         IN  IF StripIsEmpty(field)
             THEN FieldsLoop(Tail(fields), standard_keys)
             ELSE IF field \in standard_keys
             THEN FieldsLoop(Tail(fields), standard_keys)
             ELSE IF ~PatternSearch(Chars(field))
             THEN "False"
             ELSE FieldsLoop(Tail(fields), standard_keys)

\* check_for_valid_fields(source_list=list, module=m): "True", "False", or
\* the exception it raises
check_for_valid_fields(list, m) ==
    IF ~has_valid_items(list)
    THEN "False"
    ELSE IF Lower(m) \notin RecognisedModules
    THEN "ValueError"
    ELSE FieldsLoop(Val(list), StandardKeysOf(Lower(m)))

\* The lists of at most n field names
RECURSIVE Lists(_)
Lists(n) ==
    IF n = 0
    THEN {<<>>}
    ELSE LET shorter == Lists(n - 1)
         IN  shorter \cup {Append(l, f) : l \in shorter, f \in FieldNames}

InitFields ==
    /\ ApiIdle
    /\ MapIdle
    /\ RouteIdle
    /\ TwiceIdle
    /\ SourceIdle
    /\ ProBonoIdle
    /\ ArgIdle
    /\ XmlIdle
    /\ UserIdle
    /\ CustomIdle
    /\ source_list \in {None} \cup {Some(l) : l \in Lists(MaxFields)}
    /\ module \in Modules
    /\ valid = "call"

\* The call check_for_valid_fields(source_list=source_list, module=module)
CheckForValidFields ==
    /\ valid = "call"
    /\ valid' = check_for_valid_fields(source_list, module)
    /\ UNCHANGED <<source_list, module>>
    /\ UNCHANGED exceptFields

NextFields == CheckForValidFields

SpecFields == InitFields /\ [][NextFields]_vars

----------------------------------------------------------------------------
(* The GET /lsinterviews route (LSinterviews.py) *)

\* The longest configured interview list of the model
MaxInterviews == 2

\* An entry of the interview list: each of its keys is absent (None) or has
\* a value
Descriptor(external, sites, name, interview) ==
    [external |-> external, sites |-> sites, name |-> name, interview |-> interview]
Descriptors ==
    {Descriptor(e, s, n, i) :
        e \in {None, Some(TRUE)}, s \in {None, Some(<<"demo">>)},
        n \in {None, Some("Intake")}, i \in {None, Some("intake.yml")}}

\* The lists of at most n entries
RECURSIVE DescriptorLists(_)
DescriptorLists(n) ==
    IF n = 0
    THEN {<<>>}
    ELSE LET shorter == DescriptorLists(n - 1)
         IN  shorter \cup {Append(l, d) : l \in shorter, d \in Descriptors}

\* get_config("legalserver"): None, an empty dictionary, a dictionary
\* without the key "interviews", one whose "interviews" is not a list, or
\* one whose "interviews" is a list of entries
LsConfigs ==
    {NoConfig,
     [kind |-> "empty", items |-> <<>>],
     [kind |-> "no_key", items |-> <<>>],
     [kind |-> "not_list", items |-> <<>>]}
        \cup {[kind |-> "list", items |-> l] : l \in DescriptorLists(MaxInterviews)}

\* api_verify(roles=["legalserver"]) returns True, returns False, or raises
Verifications == {"True", "False", "raises"}

\* not api_verify(roles=["legalserver"]), without the negation
RoleCheckPassesAll(v) == FALSE

\* not api_verify(roles=["legalserver"])
RoleCheckFails(v) == v = "False"

\* item.setdefault("external", False); item.setdefault("sites", []);
\* item.setdefault("name", "No Name")
SetDefaults(item) ==
    [item EXCEPT !.external = IF IsNone(@) THEN Some(FALSE) ELSE @,
                 !.sites = IF IsNone(@) THEN Some(<<>>) ELSE @,
                 !.name = IF IsNone(@) THEN Some("No Name") ELSE @]

\* list.remove(x): the list without its first element equal to x
RemoveFirst(list, x) ==
    LET i == CHOOSE k \in 1..Len(list) :
                 list[k] = x /\ \A j \in 1..(k - 1) : list[j] # x
    IN  SubSeq(list, 1, i - 1) \o SubSeq(list, i + 1, Len(list))

\* for item in interview_data: ... interview_data.remove(item), from the
\* position i of the list iterator: the iterator goes on to position i + 1
\* of the list as it then is, also after a removal
RECURSIVE ForItems(_, _)
ForItems(interview_data, i) ==
    IF i > Len(interview_data)
    THEN interview_data
    ELSE LET item == SetDefaults(interview_data[i])
             filled == [interview_data EXCEPT ![i] = item]
         IN  IF IsNone(item.interview)
             THEN ForItems(RemoveFirst(filled, item), i + 1)
             ELSE ForItems(filled, i + 1)

Reply(status, error, interviews) ==
    [status |-> status, error |-> error, interviews |-> interviews]

InitRoute ==
    /\ ApiIdle
    /\ MapIdle
    /\ FieldsIdle
    /\ TwiceIdle
    /\ SourceIdle
    /\ ProBonoIdle
    /\ ArgIdle
    /\ XmlIdle
    /\ UserIdle
    /\ CustomIdle
    /\ verify \in Verifications
    /\ ls_config \in LsConfigs
    /\ configured = ls_config
    /\ config_read = FALSE
    /\ response = NoReply
    /\ route_pc = "call"

\* The request GET /lsinterviews
LsInterviews ==
    /\ route_pc = "call"
    /\ route_pc' = "returned"
    /\ IF verify = "raises"
       THEN /\ response' = Reply(500, "An unexpected error occurred during role verification.", None)
            /\ UNCHANGED <<config_read, ls_config>>
       ELSE IF RoleCheckFails(verify)
       THEN /\ response' = Reply(403, "Role verification failed.", None)
            /\ UNCHANGED <<config_read, ls_config>>
       ELSE /\ config_read' = TRUE
            /\ IF ls_config.kind \in {"none", "empty"}
               THEN /\ response' = Reply(404, "Legalserver configuration not found.", None)
                    /\ UNCHANGED ls_config
               ELSE IF ls_config.kind = "not_list"
               THEN /\ response' = Reply(400, "Invalid interview list data format.", None)
                    /\ UNCHANGED ls_config
               ELSE LET interview_data == ForItems(ls_config.items, 1)
                    IN  /\ response' = Reply(200, "", Some(interview_data))
                        /\ ls_config' = [ls_config EXCEPT !.items = interview_data]
    /\ UNCHANGED <<verify, configured>>
    /\ UNCHANGED exceptRoute

NextRoute == LsInterviews

SpecRoute == InitRoute /\ [][NextRoute]_vars

----------------------------------------------------------------------------
(* A search_* function called twice with the same arguments *)

\* The caller's search-parameter argument (contact_search_params and the
\* like): None, an empty dictionary, or a dictionary with search terms.
\* "if not contact_search_params: contact_search_params = {}" gives the
\* call a dictionary of its own in the first two cases and lets it work on
\* the caller's dictionary in the third.
Supplied == {"None", "empty", "dict"}

\* The server: it holds pages pages of rows rows each, and answers a request
\* for a page beyond them always in the same way
Servers ==
    [pages : 0..MaxPages, rows : 0..MaxRows,
     beyond : {Answer(200, TRUE, ListData(0), None), Answer(404, TRUE, None, None)}]

\* The page a request asks for: the first page when params has no page_number
RequestedPage == IF IsNone(page_number) THEN 1 ELSE Val(page_number)

\* The server's answer to a request for page p
ServerAnswer(s, p) ==
    IF p <= s.pages
    THEN Answer(200, TRUE, ListData(s.rows), Some(s.pages))
    ELSE IF s.beyond.status = 200
    THEN [s.beyond EXCEPT !.total = Some(s.pages)]
    ELSE s.beyond

\* The "page_number" entry of the caller's own dictionary
CallerPageNumber == IF supplied = "dict" THEN page_number ELSE None

InitTwice ==
    /\ config \in {c \in Configs : IsNone(GetLegalserverToken(c, "demo", 0).raised)}
    /\ now = 0
    /\ site = "demo"
    /\ fn = "search"
    /\ page_limit \in PageLimits
    /\ pc = "call"
    /\ header_content = None
    /\ counter = 0
    /\ total_number_of_pages = 1
    /\ return_data = <<>>
    /\ page_number = None
    /\ sent = <<>>
    /\ served_rows = <<>>
    /\ totals_seen = {}
    /\ failed = FALSE
    /\ last_resp = NoResponse
    /\ result = PyNone
    /\ raised = None
    /\ MapIdle
    /\ FieldsIdle
    /\ RouteIdle
    /\ SourceIdle
    /\ ProBonoIdle
    /\ ArgIdle
    /\ XmlIdle
    /\ UserIdle
    /\ CustomIdle
    /\ server \in Servers
    /\ supplied \in Supplied
    /\ call_no = 1
    /\ first_sent = <<>>
    /\ first_result = PyNone

\* One pass of the while loop of loop_through_legalserver_responses against
\* the server: the request carries params as it stands, the rows are those
\* of the page asked for
SearchPage ==
    /\ pc = "loop"
    /\ WhileCondition
    /\ LET resp == ServerAnswer(server, RequestedPage)
       IN  /\ sent' = Append(sent, page_number)
           /\ last_resp' = resp
           /\ failed' = (failed \/ ResponseFails(resp))
           /\ served_rows' = IF ResponseFails(resp) THEN served_rows
                             ELSE served_rows \o RowsOf(resp, RequestedPage)
           /\ totals_seen' = IF ResponseFails(resp) THEN totals_seen
                             ELSE totals_seen \cup {resp.total}
           /\ IF RequestException(resp) # ""
              THEN /\ result' = PyList(ExceptReturn(RequestException(resp)))
                   /\ pc' = "returned"
                   /\ UNCHANGED <<return_data, total_number_of_pages, counter, page_number>>
              ELSE /\ return_data' = Extend(return_data, resp, RequestedPage)
                   /\ total_number_of_pages' = Val(resp.total)
                   /\ counter' = counter + 1
                   /\ page_number' = PageNumberAfter(counter + 1)
                   /\ UNCHANGED <<result, pc>>
    /\ UNCHANGED <<config, now, site, fn, page_limit, header_content, raised>>
    /\ UNCHANGED exceptApi

\* The caller calls the function again with the same arguments: the locals
\* of the call start afresh, params is the caller's dictionary when one with
\* search terms was supplied and a new empty dictionary otherwise
SearchAgain ==
    /\ pc = "returned"
    /\ call_no = 1
    /\ call_no' = 2
    /\ first_sent' = sent
    /\ first_result' = result
    /\ pc' = "call"
    /\ header_content' = None
    /\ counter' = 0
    /\ total_number_of_pages' = 1
    /\ return_data' = <<>>
    /\ page_number' = CallerPageNumber
    /\ sent' = <<>>
    /\ served_rows' = <<>>
    /\ totals_seen' = {}
    /\ failed' = FALSE
    /\ last_resp' = NoResponse
    /\ result' = PyNone
    /\ UNCHANGED <<config, now, site, fn, page_limit, raised, server, supplied>>
    /\ UNCHANGED exceptTwice

NextTwice ==
    \/ CallToken
    \/ SearchPage
    \/ LoopReturn
    \/ SearchAgain

SpecTwice == InitTwice /\ [][NextTwice]_vars

----------------------------------------------------------------------------
(* get_source_module_data *)

MaxSource == 2

\* The search function get_source_module_data calls for a source_type, "" for
\* associated_cases and for a source_type it does not know
SearchFunctionOf(t) ==
    CASE t = "events" -> "search_event_data"
      [] t = "tasks" -> "search_task_data"
      [] t = "contacts" -> "search_matter_contacts_data"
      [] t = "services" -> "search_matter_services_data"
      [] t = "charges" -> "search_matter_charges_data"
      [] t = "litigations" -> "search_matter_litigation_data"
      [] t = "assignments" -> "search_matter_assignments_data"
      [] t = "notes" -> "search_matter_notes_data"
      [] t = "additional_names" -> "search_matter_additional_names"
      [] t = "adverse_parties" -> "search_matter_adverse_parties"
      [] t = "non_adverse_parties" -> "search_matter_non_adverse_parties"
      [] t = "incomes" -> "search_matter_income_data"
      [] t = "associated_cases" -> ""
      [] t = "documents" -> "search_document_data"
      [] OTHER -> ""

SourceTypes ==
    {"events", "tasks", "contacts", "services", "charges", "litigations",
     "assignments", "notes", "additional_names", "adverse_parties",
     "non_adverse_parties", "incomes", "associated_cases", "documents",
     "matters"}

\* Lists of dictionaries: "row" is a dictionary without an "error" key,
\* "error" a dictionary with one
RECURSIVE SourceLists(_)
SourceLists(n) ==
    IF n = 0 THEN {<<>>}
    ELSE SourceLists(n - 1) \cup
         {Append(l, r) : l \in {x \in SourceLists(n - 1) : Len(x) = n - 1},
                         r \in {"row", "error"}}

\* The legalserver_data argument: None, an empty dictionary, a dictionary
\* without the source_type key, one with null under it, one with a list
LegalserverData ==
    [kind : {"None", "empty", "no_key", "null"}, list : {<<>>}] \cup
    [kind : {"list"}, list : SourceLists(MaxSource)]

\* None, the empty string or a value
OptionalStrings == {None, Some(""), Some("x")}

Truthy(a) == ~IsNone(a) /\ Val(a) # ""

InitSource ==
    /\ source_type \in SourceTypes
    /\ embedded \in LegalserverData
    /\ matter_arg \in OptionalStrings
    /\ site_arg \in OptionalStrings
    /\ found \in SourceLists(MaxSource)
    /\ searched = <<>>
    /\ source = None
    /\ ApiIdle
    /\ MapIdle
    /\ FieldsIdle
    /\ RouteIdle
    /\ TwiceIdle
    /\ ProBonoIdle
    /\ ArgIdle
    /\ XmlIdle
    /\ UserIdle
    /\ CustomIdle

\* The embedded data is not consulted at all
EmbeddedSourceIgnored == <<>>

\* "source = []", then the value under source_type when legalserver_data is
\* truthy and holds a non-null value there
EmbeddedSource == IF embedded.kind = "list" THEN embedded.list ELSE <<>>

\* A list of one dictionary with an "error" key is replaced by the empty list
DropError(list) ==
    IF Len(list) = 1 /\ list[1] = "error" THEN <<>> ELSE list

GetSourceModuleData ==
    /\ IsNone(source)
    /\ IF EmbeddedSource = <<>> /\ Truthy(matter_arg) /\ Truthy(site_arg)
       THEN IF SearchFunctionOf(source_type) # ""
            THEN /\ searched' = Append(searched, SearchFunctionOf(source_type))
                 /\ source' = Some(DropError(found))
            ELSE /\ source' = Some(<<>>)
                 /\ UNCHANGED searched
       ELSE /\ source' = Some(DropError(EmbeddedSource))
            /\ UNCHANGED searched
    /\ UNCHANGED <<source_type, embedded, matter_arg, site_arg, found>>
    /\ UNCHANGED exceptSource

NextSource == GetSourceModuleData

SpecSource == InitSource /\ [][NextSource]_vars

----------------------------------------------------------------------------
(* populate_first_pro_bono_assignment, populate_latest_pro_bono_assignment *)

MaxAssignments == 3

\* A moment is a day and the ticks into it (the current day is day 0)
Moment(d, t) == [day |-> d, tick |-> t]

\* The start dates of the model: midnight of the day before the call, of the
\* day of the call and of the day after it (LegalServer sends dates)
StartDates == {Moment(d, 0) : d \in -1..1}

\* The times of the call: at midnight, one tick and one second into the day,
\* and at noon
Clocks == {Moment(0, t) : t \in {0, 1, TicksPerSecond, TicksPerDay \div 2}}

\* The sign of date_difference(starting, ending).days: the whole seconds
\* from starting to ending (microseconds dropped) when the two lie within
\* two days of each other, and 1 or -1 beyond that
DateDifferenceSign(starting, ending) ==
    LET d == ending.day - starting.day
    IN  IF d > 1 THEN 1
        ELSE IF d < -1 THEN -1
        ELSE DateDifferenceDays(starting.tick, d * TicksPerDay + ending.tick)

\* An assignment as populate_assignments leaves it; end_date is None for an
\* open assignment; the user_uuid is a non-empty string, here the position
\* of the assignment in the list
Assignment(start, ended, type) ==
    [start_date |-> start, end_date |-> IF ended THEN Some(start) ELSE None,
     type |-> type]

Assignments ==
    {Assignment(s, e, t) : s \in StartDates, e \in BOOLEAN, t \in {"Pro Bono", "Staff"}}

RECURSIVE AssignmentLists(_)
AssignmentLists(n) ==
    IF n = 0 THEN {<<>>}
    ELSE AssignmentLists(n - 1) \cup
         {Append(l, a) : l \in {x \in AssignmentLists(n - 1) : Len(x) = n - 1},
                         a \in Assignments}

\* assignment.user_uuid of the i-th assignment; "" is <<>>
UserUuid(i) == <<i>>

\* date.today() - date_interval(years=100)
HundredYearsAgo(current) == Moment(current.day - 36525, 0)

\* The test of the loop of populate_first_pro_bono_assignment
StartsEarlier(start, earliest) == DateDifferenceSign(start, earliest) > 0

\* The comparison of the loop turned round
StartsLaterReversed(start, latest) == DateDifferenceSign(start, latest) > 0

\* The test of the loop of populate_latest_pro_bono_assignment
StartsLater(start, latest) == DateDifferenceSign(start, latest) < 0

\* The for loop of both functions from the i-th assignment on, with the date
\* and the uuid found so far: [date, uuid] after the loop
RECURSIVE ForAssignments(_, _, _, _, _)
ForAssignments(list, i, date, uuid, first) ==
    IF i > Len(list) THEN [date |-> date, uuid |-> uuid]
    ELSE LET assignment == list[i]
             taken == /\ IsNone(assignment.end_date)
                      /\ assignment.type = "Pro Bono"
                      /\ IF first THEN StartsEarlier(assignment.start_date, date)
                         ELSE StartsLater(assignment.start_date, date)
         IN  IF taken
             THEN ForAssignments(list, i + 1, assignment.start_date, UserUuid(i), first)
             ELSE ForAssignments(list, i + 1, date, uuid, first)

InitProBono ==
    /\ assignment_list \in AssignmentLists(MaxAssignments)
    /\ clock \in Clocks
    /\ populated_by = ""
    /\ user_requests = <<>>
    /\ assignment_start_date = None
    /\ ApiIdle
    /\ MapIdle
    /\ FieldsIdle
    /\ RouteIdle
    /\ TwiceIdle
    /\ SourceIdle
    /\ ArgIdle
    /\ XmlIdle
    /\ UserIdle
    /\ CustomIdle

\* The end of both functions: the user is requested and the start date is
\* recorded unless the uuid is still ""
PopulateFrom(chosen) ==
    /\ IF chosen.uuid # <<>>
       THEN /\ user_requests' = Append(user_requests, chosen.uuid)
            /\ assignment_start_date' = Some(chosen.date)
       ELSE UNCHANGED <<user_requests, assignment_start_date>>
    /\ UNCHANGED <<assignment_list, clock>>
    /\ UNCHANGED exceptProBono

PopulateFirstProBonoAssignment ==
    /\ populated_by = ""
    /\ populated_by' = "first"
    /\ PopulateFrom(ForAssignments(assignment_list, 1, clock, <<>>, TRUE))

PopulateLatestProBonoAssignment ==
    /\ populated_by = ""
    /\ populated_by' = "latest"
    /\ PopulateFrom(ForAssignments(assignment_list, 1, HundredYearsAgo(clock), <<>>, FALSE))

NextProBono ==
    \/ PopulateFirstProBonoAssignment
    \/ PopulateLatestProBonoAssignment

SpecProBono == InitProBono /\ [][NextProBono]_vars

----------------------------------------------------------------------------
(* element_to_dict *)

MaxChildren == 3

\* An XML element: its tag, its text (None for an empty element) and its
\* child elements in document order
Element(tag, text, children) == [tag |-> tag, text |-> text, children |-> children]

\* The values element_to_dict builds: a text (or None), a dictionary from
\* tags to values, a list of values
TextValue(text) == [kind |-> "text", text |-> text, entries |-> EmptyDict, items |-> <<>>]
DictValue(entries) == [kind |-> "dict", text |-> None, entries |-> entries, items |-> <<>>]
ListValue(items) == [kind |-> "list", text |-> None, entries |-> EmptyDict, items |-> items]

Tags == {"a", "b"}

\* Elements without children: with a text, and one empty element
Leaves ==
    {Element(t, x, <<>>) : t \in Tags, x \in {Some("x"), Some("y")}}
        \cup {Element("b", None, <<>>)}

\* Elements whose children are one or two leaves tagged "a"
Parents ==
    {Element(t, None, <<c>>) : t \in Tags, c \in {l \in Leaves : l.tag = "a"}} \cup
    {Element(t, None, <<c, d>>) : t \in Tags, c, d \in {l \in Leaves : l.tag = "a"}}

\* Sequences of 1..n children, each a leaf or a parent of leaves
RECURSIVE ChildLists(_)
ChildLists(n) ==
    IF n = 1 THEN {<<c>> : c \in Leaves \cup Parents}
    ELSE ChildLists(n - 1) \cup
         {Append(l, c) : l \in {x \in ChildLists(n - 1) : Len(x) = n - 1},
                         c \in Leaves \cup Parents}

\* The elements of the model: leaves, and a root over 1..MaxChildren children
Elements ==
    Leaves \cup {Element("root", None, l) : l \in ChildLists(MaxChildren)}

\* A repeated tag always starts a new two-element list
MergeNested(existing, child_data) == ListValue(<<existing, child_data>>)

\* The value stored under a tag that is already in the dictionary
Merge(existing, child_data) ==
    IF existing.kind = "list"
    THEN ListValue(Append(existing.items, child_data))
    ELSE ListValue(<<existing, child_data>>)

RECURSIVE element_to_dict(_)
RECURSIVE ForChildren(_, _, _)

\* The for loop of element_to_dict from the i-th child on, entries being the
\* dictionary built so far
ForChildren(children, i, entries) ==
    IF i > Len(children) THEN entries
    ELSE LET child == children[i]
             child_data == element_to_dict(child)
         IN  ForChildren(children, i + 1,
                 IF child.tag \in DOMAIN entries
                 THEN Put(entries, child.tag, Merge(entries[child.tag], child_data))
                 ELSE Put(entries, child.tag, child_data))

element_to_dict(e) ==
    IF Len(e.children) = 0
    THEN TextValue(e.text)
    ELSE DictValue(ForChildren(e.children, 1, EmptyDict))

InitXml ==
    /\ element \in Elements
    /\ converted = None
    /\ ApiIdle
    /\ MapIdle
    /\ FieldsIdle
    /\ RouteIdle
    /\ TwiceIdle
    /\ SourceIdle
    /\ ProBonoIdle
    /\ ArgIdle
    /\ UserIdle
    /\ CustomIdle

ElementToDict ==
    /\ IsNone(converted)
    /\ converted' = Some(element_to_dict(element))
    /\ UNCHANGED element
    /\ UNCHANGED exceptXml

NextXml == ElementToDict

SpecXml == InitXml /\ [][NextXml]_vars

----------------------------------------------------------------------------
(* get_user_details *)

\* The lists search_user_organization_affiliation returns: the rows of the
\* user's affiliations, or the one-element error list of the loop
AffiliationLists ==
    {PyList(RowsOf(Answer(200, TRUE, ListData(n), None), 1)) : n \in 0..MaxRows}
        \cup {PyList(ExceptReturn(k)) : k \in Failures}

InitUser ==
    /\ config \in Configs
    /\ now \in NowTimes
    /\ site \in SiteArgs
    /\ fn = "none"
    /\ page_limit = None
    /\ pc = "idle"
    /\ header_content = None
    /\ counter = 0
    /\ total_number_of_pages = 1
    /\ return_data = <<>>
    /\ page_number = None
    /\ sent = <<>>
    /\ served_rows = <<>>
    /\ totals_seen = {}
    /\ failed = FALSE
    /\ last_resp = NoResponse
    /\ result = PyNone
    /\ raised = None
    /\ MapIdle
    /\ FieldsIdle
    /\ RouteIdle
    /\ TwiceIdle
    /\ SourceIdle
    /\ ProBonoIdle
    /\ ArgIdle
    /\ XmlIdle
    /\ CustomIdle
    /\ user_pc = "call"
    /\ user_resp = NoResponse
    /\ user_return_data = PyNone
    /\ affiliation = PyNone
    /\ requested = <<>>
    /\ user_raised = None

\* header_content = get_legalserver_token(...): an exception of the token
\* check leaves get_user_details before any request
UserToken ==
    /\ user_pc = "call"
    /\ LET t == GetLegalserverToken(config, site, now)
       IN  IF ~IsNone(t.raised)
           THEN /\ user_raised' = t.raised
                /\ user_pc' = "raised"
           ELSE /\ user_pc' = "request"
                /\ UNCHANGED user_raised
    /\ UNCHANGED <<user_resp, user_return_data, affiliation, requested>>
    /\ UNCHANGED exceptUser

\* return_data = get_legalserver_response(... source_type="user" ...)
UserRequest ==
    /\ user_pc = "request"
    /\ \E resp \in GetResponses :
          /\ user_resp' = resp
          /\ user_return_data' = GetLegalserverResponse(resp)
    /\ requested' = Append(requested, "user")
    /\ user_pc' = "affiliation"
    /\ UNCHANGED <<affiliation, user_raised>>
    /\ UNCHANGED exceptUser

\* return_data["organization_affiliation"] = search_user_organization_affiliation(...):
\* the search runs first, then the value is stored under the key, which
\* raises TypeError when return_data is None or a list
UserAffiliation ==
    /\ user_pc = "affiliation"
    /\ \E list \in AffiliationLists : affiliation' = list
    /\ requested' = Append(requested, "organization_affiliation")
    /\ IF user_return_data.type = "dict"
       THEN /\ user_return_data' =
                  [user_return_data EXCEPT !.keys = @ \cup {"organization_affiliation"}]
            /\ user_pc' = "returned"
            /\ UNCHANGED user_raised
       ELSE /\ user_raised' = Some("TypeError")
            /\ user_pc' = "raised"
            /\ UNCHANGED user_return_data
    /\ UNCHANGED user_resp
    /\ UNCHANGED exceptUser

NextUser ==
    \/ UserToken
    \/ UserRequest
    \/ UserAffiliation

SpecUser == InitUser /\ [][NextUser]_vars

----------------------------------------------------------------------------
(* check_custom_fields *)

MaxResponseKeys == 2

\* The keys of the responses of the model: the standard keys that hold a
\* digit, a standard key without one, a name of the custom-field form (also
\* with a final newline) and a name that is neither
ResponseKeys ==
    {"street_2", "street_address_2", "addr2", "hud_9902_ethnicity",
     "ssi_section8_housing_type", "case_number", "foo_1", "foo_1\n", "bogus"}

\* The key lists of dictionaries with at most n of these keys
RECURSIVE KeyLists(_)
KeyLists(n) ==
    IF n = 0 THEN {<<>>}
    ELSE KeyLists(n - 1) \cup
         {Append(l, k) : l \in {x \in KeyLists(n - 1) : Len(x) = n - 1},
                         k \in ResponseKeys}

\* No key occurs twice in a dictionary
DistinctKeys(l) == \A i, j \in 1..Len(l) : l[i] = l[j] => i = j

\* re.compile(r"_\d+$").search(key)
CustomPatternSearch(cs) ==
    \E p \in 1..Len(cs) :
        /\ cs[p] = "_"
        /\ \E e \in DigitRun(cs, p + 1) : AtEnd(cs, e)

\* check_custom_fields(response_obj): the list of the pair it returns (the
\* boolean is whether the list is non-empty)
check_custom_fields(obj) ==
    IF IsNone(obj) THEN <<>>
    ELSE LET Matches(key) == CustomPatternSearch(Chars(key))
         IN  SelectSeq(Val(obj), Matches)

InitCustom ==
    /\ entity \in RecognisedModules
    /\ response_obj \in
          {None} \cup {Some(l) : l \in {x \in KeyLists(MaxResponseKeys) : DistinctKeys(x)}}
    /\ custom_keys = None
    /\ ApiIdle
    /\ MapIdle
    /\ FieldsIdle
    /\ RouteIdle
    /\ TwiceIdle
    /\ SourceIdle
    /\ ProBonoIdle
    /\ ArgIdle
    /\ XmlIdle
    /\ UserIdle

CheckCustomFields ==
    /\ IsNone(custom_keys)
    /\ custom_keys' = Some(check_custom_fields(response_obj))
    /\ UNCHANGED <<entity, response_obj>>
    /\ UNCHANGED exceptCustom

NextCustom == CheckCustomFields

SpecCustom == InitCustom /\ [][NextCustom]_vars

----------------------------------------------------------------------------
(* Properties of the API functions *)

\* C1: loop_through_legalserver_responses accumulates across pages: when
\* every request of the call succeeded and every page reported the same
\* total_number_of_pages T >= 1, the call issued exactly min(T, page_limit)
\* requests (T when page_limit is None) and returned the concatenation, in
\* request order, of the data arrays it was served.
C1_PaginationAccumulates ==
    (pc = "returned" /\ fn = "search" /\ ~failed) =>
        \A T \in 1..MaxPages :
            (totals_seen \subseteq {Some(T)}) =>
                /\ Len(sent) = IF IsNone(page_limit) THEN T
                               ELSE Min(T, Val(page_limit))
                /\ result = PyList(served_rows)

\* A call that stopped at the page limit (2) before the server's 3 pages,
\* with rows gathered from both pages
C1_Witness ==
    /\ pc = "returned"
    /\ fn = "search"
    /\ ~failed
    /\ totals_seen = {Some(3)}
    /\ page_limit = Some(2)
    /\ Len(sent) = 2
    /\ result = PyList(<<DataRow(1, 1), DataRow(2, 1)>>)

\* C2: a failure on any page of loop_through_legalserver_responses aborts
\* the loop: the call has returned a list of exactly one element, a
\* dictionary with the key "error" (the rows of earlier pages are gone), and
\* no request is issued after the failure.
C2_FailureAborts ==
    /\ [](  (fn = "search" /\ failed) =>
                /\ pc = "returned"
                /\ result.type = "list"
                /\ Len(result.items) = 1
                /\ result.items[1].kind = "error")
    /\ [][(fn = "search" /\ failed) => sent' = sent]_vars

\* The third request failed after two pages had delivered rows
C2_Witness ==
    /\ fn = "search"
    /\ failed
    /\ Len(sent) = 3
    /\ Len(served_rows) = 2
    /\ pc = "returned"
    /\ Len(result.items) = 1

\* The credential the call finds for its site is missing or expired
CredentialUnusable ==
    LET apikey == ConfigGet(config, Lower(site))
    IN  \/ ConfigFalsy(config)
        \/ IsNone(apikey)
        \/ IsNone(Val(apikey).bearer)
        \/ IsNone(Val(apikey).expiration)
        \/ Val(Val(apikey).expiration) < now

\* C3: for every get_*, search_*, get_document, get_legalserver_report_data
\* and post_file_to_legalserver_documents_webhook call, a missing
\* configuration, site entry, bearer token or expiration, or an expiration
\* that lies before the current time, ends the call in an exception with no
\* HTTP request issued.
C3_UnusableCredentialBlocksRequests ==
    (fn # "check" /\ CredentialUnusable) =>
        /\ sent = <<>>
        /\ pc # "returned"

\* C4: check_legalserver_token and get_legalserver_token agree on every
\* configuration, site and time: the check returns a dictionary with the key
\* "error" exactly when the getter raises and {"no_error": "valid token"}
\* exactly when the getter returns the header; the check never raises.
C4_CheckAgreesWithGet ==
    /\ (fn = "check" /\ pc = "returned") =>
        LET t == GetLegalserverToken(config, site, now)
        IN  /\ (result.keys = {"error"}) <=> ~IsNone(t.raised)
            /\ (result.keys = {"no_error"} /\ result.detail = "valid token")
                    <=> ~IsNone(t.value)
            /\ result.type = "dict"
    /\ (fn = "check") => (IsNone(raised) /\ pc # "raised")
    /\ (fn # "check" /\ pc # "call") =>
        LET c == CheckLegalserverToken(config, site, now)
        IN  /\ (c.key = "error") <=> IsNone(header_content)
            /\ (c.key = "no_error") <=> ~IsNone(header_content)

\* The check reported an expired token
C4_Witness ==
    /\ fn = "check"
    /\ pc = "returned"
    /\ result.keys = {"error"}
    /\ result.detail = "bearer token expired"

\* The request of a get_* call met a failure in the sense of C10
GetFailure(resp) ==
    \/ resp.kind # "response"
    \/ resp.status # 200
    \/ ~resp.json

\* C10: get_legalserver_response issues exactly one request and never
\* raises; on a 200 response it returns the value under "data", on any
\* failure a dictionary whose only key is "error"; its result is always a
\* dictionary.
C10_GetResponseAlwaysDict ==
    (fn = "get" /\ pc = "returned") =>
        /\ Len(sent) = 1
        /\ IsNone(raised)
        /\ GetFailure(last_resp) => result.keys = {"error"}
        /\ result.type = "dict"

\* The call finds a credential with a bearer token and an expiration
CredentialComplete ==
    LET apikey == ConfigGet(config, Lower(site))
    IN  /\ ~ConfigFalsy(config)
        /\ ~IsNone(apikey)
        /\ ~IsNone(Val(apikey).bearer)
        /\ ~IsNone(Val(apikey).expiration)

\* The ticks from the expiration of the credential to the current time
SinceExpiration == now - Val(Val(ConfigGet(config, Lower(site))).expiration)

\* The token check has rejected the token as expired
RejectedAsExpired ==
    IF fn = "check"
    THEN pc = "returned" /\ result.keys = {"error"} /\ result.detail = "bearer token expired"
    ELSE pc = "raised" /\ raised = Some("Bearer token has expired")

\* C23 (as stated): token expiry is decided in whole days: a complete
\* credential is rejected as expired exactly when the whole days from its
\* expiration to the current time are more than 0, so a token that expires
\* in the future, now, or expired less than a day ago is accepted.
C23_ExpiryInWholeDays ==
    (pc # "call" /\ CredentialComplete) =>
        (RejectedAsExpired <=> (SinceExpiration \div TicksPerDay) > 0)

\* C23 (amended): expiry is decided in whole seconds: a complete credential
\* is rejected as expired exactly when at least one whole second has passed
\* since its expiration.
C23_ExpiryInWholeSeconds ==
    (pc # "call" /\ CredentialComplete) =>
        (RejectedAsExpired <=> SinceExpiration >= TicksPerSecond)

\* A token that expired one second ago is rejected by check_legalserver_token
C23_Witness ==
    /\ fn = "check"
    /\ CredentialComplete
    /\ SinceExpiration = TicksPerSecond
    /\ RejectedAsExpired

----------------------------------------------------------------------------
(* Termination and page numbers of loop_through_legalserver_responses *)

\* The largest total_number_of_pages a response of the call reported, 1 when
\* none did or all were smaller
LargestTotal ==
    LET reported == {Val(t) : t \in {x \in totals_seen : ~IsNone(x)}} \cup {1}
    IN  CHOOSE m \in reported : \A n \in reported : n <= m

\* The last successful response omitted total_number_of_pages or reported 0
LastPageEndsLoop ==
    /\ fn = "search"
    /\ sent # <<>>
    /\ ~failed
    /\ last_resp.total \in {None, Some(0)}

\* The parts of C21 that do not depend on the totals: the loop ends, the page
\* limit bounds the requests, and a response without a total or with total 0
\* is the last, its data kept
LoopEndsWithinLimit ==
    /\ (fn = "search" /\ pc = "loop") ~> (pc = "returned")
    /\ []((fn = "search" /\ ~IsNone(page_limit)) =>
            /\ Len(sent) <= Val(page_limit)
            /\ (page_limit = Some(0) /\ pc = "returned") =>
                    (sent = <<>> /\ result = PyList(<<>>)))
    /\ [](LastPageEndsLoop => (pc = "returned" => result = PyList(served_rows)))
    /\ [][LastPageEndsLoop => sent' = sent]_vars

C22_PageNumbersCount ==
    fn = "search" =>
        /\ \A k \in 1..Len(sent) : sent[k] = IF k = 1 THEN None ELSE Some(k)
        /\ (pc = "returned" /\ ~failed /\ sent # <<>> /\ ~IsNone(last_resp.total)) =>
              page_number = Some(Len(sent) + 1)

\* Three pages were gone through and params is left with page_number 4
C22_Witness ==
    /\ fn = "search"
    /\ pc = "returned"
    /\ ~failed
    /\ sent = <<None, Some(2), Some(3)>>
    /\ ~IsNone(last_resp.total)
    /\ page_number = Some(4)

----------------------------------------------------------------------------
(* Properties of the populate_* mappers *)

\* The call of the mapper is over: it returned or it raised
MapOver == map_pc \in {"returned", "raised"}

\* The mappers that build a custom_fields bucket
BucketMappers == Mappers \ {"populate_documents"}

\* The top-level keys of the input that are not in the mapper's standard list
NonStandardKeys == {k \in DOMAIN legalserver_data : k \notin MapperOf(mapper).standard}

\* custom_fields has been given exactly the non-standard pairs of the input
BucketIsNonStandardPairs ==
    /\ ~IsNone(destination.custom_fields)
    /\ DOMAIN Val(destination.custom_fields) = NonStandardKeys
    /\ \A k \in NonStandardKeys : Val(destination.custom_fields)[k] = legalserver_data[k]

\* C5: for every mapper that builds a custom_fields bucket and every input
\* object, after the call the keys of the destination's custom_fields are
\* exactly the top-level input keys that are not in the entity's standard
\* key list, each with its input value: no standard key is in the bucket
\* and no non-standard key is left out.
C5_BucketHoldsNonStandardKeys ==
    (mapper \in BucketMappers /\ MapOver) => BucketIsNonStandardPairs

\* The matter data of the round-trip example
ExampleMatter ==
    Put(Put(Put(EmptyDict, "uuid", JStr("abc")), "first", JStr("Jane")),
        "custom_field_1", JStr("x"))

\* C6: on the matter data {"uuid": "abc", "first": "Jane",
\* "custom_field_1": "x"} populate_case completes, sets case.uuid to "abc"
\* and case.custom_fields to exactly {"custom_field_1": "x"}; and for any
\* matter object the key "uuid" is not in case.custom_fields.
C6_ExampleMatterRoundTrip ==
    (mapper = "populate_case" /\ MapOver) =>
        /\ legalserver_data = ExampleMatter =>
              /\ map_pc = "returned"
              /\ Get(destination.attrs, "uuid") = JStr("abc")
              /\ destination.custom_fields =
                     Some(Put(EmptyDict, "custom_field_1", JStr("x")))
        /\ ~IsNone(destination.custom_fields) =>
              "uuid" \notin DOMAIN Val(destination.custom_fields)

\* The statements of the mapper that read a nested lookup field
LookupKinds == {"lookup", "subscript", "unchecked"}

\* The lookup field is absent, null, not a dictionary, or a dictionary
\* without lookup_value_name
NoLookupValue(key) ==
    LET v == Get(legalserver_data, key)
    IN  v = JNull \/ v.t # "dict" \/ IsNone(v.name)

\* The attribute of the destination is as it was at the call
AttrAsBefore(a) ==
    /\ a \in DOMAIN destination.attrs <=> a \in DOMAIN before.attrs
    /\ a \in DOMAIN before.attrs => destination.attrs[a] = before.attrs[a]

\* C7: nested lookup fields never make populate_case, populate_documents
\* or populate_charges raise: the mapper returns normally, and a lookup
\* field that is absent, null, not a dictionary or a dictionary without
\* lookup_value_name leaves its destination field without a value.
C7_LookupFieldsNeverRaise ==
    (mapper \in {"populate_case", "populate_documents", "populate_charges"} /\ MapOver) =>
        /\ map_pc = "returned"
        /\ \A i \in 1..Len(MapperOf(mapper).rules) :
              LET rule == MapperOf(mapper).rules[i]
              IN  (rule.kind \in LookupKinds /\ NoLookupValue(rule.key))
                      => AttrAsBefore(rule.attr)

\* The input holds a usable non-null value for the attribute a: some
\* statement assigning a reads a key whose value is not null and, for a
\* lookup field, is a dictionary with a lookup_value_name
UsableSource(a) ==
    \E i \in 1..Len(MapperOf(mapper).rules) :
        LET rule == MapperOf(mapper).rules[i]
        IN  /\ rule.attr = a
            /\ Get(legalserver_data, rule.key) # JNull
            /\ rule.kind \in LookupKinds => ~NoLookupValue(rule.key)

\* C8: populate_case leaves unrelated destination fields untouched: uuid
\* and custom_fields are always assigned; any other attribute is assigned
\* only when its source key is in the input with a usable non-null value,
\* and every other attribute the object had keeps its value; the input
\* dictionary is not modified.
C8_PopulateCaseFrame ==
    /\ [](  (mapper = "populate_case" /\ MapOver) =>
              /\ "uuid" \in DOMAIN destination.attrs
              /\ destination.attrs["uuid"] = Get(legalserver_data, "uuid")
              /\ BucketIsNonStandardPairs
              /\ \A a \in (DOMAIN destination.attrs \cup DOMAIN before.attrs) \ {"uuid"} :
                    AttrAsBefore(a) \/ UsableSource(a))
    /\ [][mapper = "populate_case" => legalserver_data' = legalserver_data]_vars


\* C17: populate_contact_data raises TypeError to its caller when
\* contact_data is not a dictionary or contact is not an Individual.
C17_TypeErrorReachesCaller ==
    (/\ mapper = "populate_contact_data"
     /\ map_pc # "call"
     /\ (contact_data_kind # "dict" \/ contact_kind # "Individual"))
        => map_raised = Some("TypeError")

----------------------------------------------------------------------------
(* Properties of check_for_valid_fields *)

\* The entry is not blank: it has a character that is not whitespace
NonBlank(s) == \E i \in 1..Len(Chars(s)) : Chars(s)[i] \notin Whitespace

\* The name has the custom-field form: one or more letters, digits or
\* underscores, an underscore, one or more digits, to the end of the name
\* (where $ also accepts a final newline)
NameWithDigits(s) ==
    LET cs == Chars(s)
        n == IF Len(cs) > 0 /\ cs[Len(cs)] = "\n" THEN Len(cs) - 1 ELSE Len(cs)
    IN  \E i \in 2..(n - 1) :
            /\ cs[i] = "_"
            /\ \A j \in 1..(i - 1) : WordChar(cs[j])
            /\ \A j \in (i + 1)..n : cs[j] \in Digits

\* source_list has a non-blank entry, and each of its non-blank entries is
\* a standard key of the module or has the custom-field form
AllFieldsValid ==
    /\ ~IsNone(source_list)
    /\ \E i \in 1..Len(Val(source_list)) : NonBlank(Val(source_list)[i])
    /\ \A i \in 1..Len(Val(source_list)) :
          LET field == Val(source_list)[i]
          IN  NonBlank(field) =>
                  \/ field \in StandardKeysOf(Lower(module))
                  \/ NameWithDigits(field)

\* C9: for a recognised module check_for_valid_fields returns True exactly
\* when source_list has at least one non-blank string and every non-blank
\* entry is in the module's standard key list or matches
\* ^[a-zA-Z0-9_]+_<digits>$, and False otherwise; ["case_number", "foo_1"]
\* with "matters" gives True and ["bogus"] with "matters" gives False.
C9_ValidFieldsExactly ==
    (valid \notin {"idle", "call"} /\ Lower(module) \in RecognisedModules) =>
        /\ valid = IF AllFieldsValid THEN "True" ELSE "False"
        /\ (source_list = Some(<<"case_number", "foo_1">>) /\ module = "matters")
              => valid = "True"
        /\ (source_list = Some(<<"bogus">>) /\ module = "matters")
              => valid = "False"

\* The first example of C9 has been evaluated: a list of a standard key and
\* a custom-field name was accepted for "matters"
C9_Witness ==
    /\ module = "matters"
    /\ source_list = Some(<<"case_number", "foo_1">>)
    /\ valid = "True"


\* C20: errors of search_user_data and search_matter_notes_data are handled
\* in the response: with custom_results holding at least one non-blank field
\* name their call of check_for_valid_fields (module "users", module
\* "notes") does not raise, so each returns a list; equivalently every module
\* name a get_* or search_* function passes to check_for_valid_fields is
\* recognised.
C20_CallerModulesRecognised ==
    /\ (/\ valid \notin {"idle", "call"}
        /\ module \in {"users", "notes"}
        /\ has_valid_items(source_list)) => valid \in {"True", "False"}
    /\ valid \notin {"idle", "call"} =>
          \A m \in CallerModules : Lower(m) \in RecognisedModules

----------------------------------------------------------------------------
(* Properties of the GET /lsinterviews route *)

\* C11: GET /lsinterviews is gated by the role check: whenever
\* api_verify(roles=["legalserver"]) is false the response is the 403
\* error and the legalserver configuration is neither read nor part of the
\* response; interview descriptors are returned only after the role check
\* has succeeded.
C11_RouteGatedByRoleCheck ==
    route_pc = "returned" =>
        /\ verify = "False" =>
              /\ response.status = 403
              /\ response.error = "Role verification failed."
              /\ ~config_read
              /\ IsNone(response.interviews)
              /\ ls_config = configured
        /\ ~IsNone(response.interviews) => verify = "True"

\* A request whose role check failed was answered although interviews are
\* configured
C11_Witness ==
    /\ route_pc = "returned"
    /\ verify = "False"
    /\ configured.kind = "list"
    /\ Len(configured.items) = 2
    /\ response.status = 403

\* The entry has an interview path
HasInterview(d) == ~IsNone(d.interview)

\* The entries of a list that have an interview path, in order
RECURSIVE WithInterview(_)
WithInterview(list) ==
    IF list = <<>>
    THEN <<>>
    ELSE IF HasInterview(Head(list))
    THEN <<SetDefaults(Head(list))>> \o WithInterview(Tail(list))
    ELSE WithInterview(Tail(list))

\* C12: on success GET /lsinterviews returns a list in which every
\* descriptor has the keys external, sites, name and interview with
\* interview not null: for every configured list (also with two or more
\* adjacent entries lacking an interview path) the entries without an
\* interview path are absent from the response and the entries with one
\* are present, with the defaults external=False, sites=[], name="No Name"
\* filled in.
C12_OnlyEntriesWithInterview ==
    (route_pc = "returned" /\ response.status = 200 /\ configured.kind = "list") =>
        /\ \A i \in 1..Len(Val(response.interviews)) :
              LET d == Val(response.interviews)[i]
              IN  /\ ~IsNone(d.external) /\ ~IsNone(d.sites) /\ ~IsNone(d.name)
                  /\ HasInterview(d)
        /\ Val(response.interviews) = WithInterview(configured.items)

----------------------------------------------------------------------------
(* Claims about repeated calls *)

\* C13: no state is shared across calls. When a search_* function is called
\* twice with the same arguments against an unchanged server, the second call
\* sends the same sequence of requests as the first (so its first request
\* asks for the first page) and returns the same list, and the first call
\* leaves the caller's search-parameter dictionary without a page_number.
C13_SecondCallRepeatsFirst ==
    /\ (call_no = 1 /\ pc = "returned") => IsNone(CallerPageNumber)
    /\ (call_no = 2 /\ pc = "returned") =>
          /\ sent = first_sent
          /\ result = first_result

----------------------------------------------------------------------------
(* Claims about get_source_module_data *)

\* The module asked for has a search endpoint that get_source_module_data knows
Searchable == SearchFunctionOf(source_type) # ""

\* legalserver_data holds a non-empty list under source_type
HoldsList == embedded.kind = "list" /\ embedded.list # <<>>

\* C14 (as stated): when legalserver_data holds a non-empty list under
\* source_type, that list is returned and no API request is made; a search is
\* made only when the embedded data is missing or empty and both
\* legalserver_matter_uuid and legalserver_site are non-empty; for
\* associated_cases or an unrecognised source_type no request is ever made.
C14_EmbeddedListReturned ==
    ~IsNone(source) =>
        /\ HoldsList => (Val(source) = embedded.list /\ searched = <<>>)
        /\ searched # <<>> => (~HoldsList /\ Truthy(matter_arg) /\ Truthy(site_arg))
        /\ ~Searchable => searched = <<>>

\* C14 (amended): as above, except that an embedded list of exactly one
\* entry with an "error" key is returned as the empty list (still without a
\* request); every other non-empty embedded list is returned as it is.
C14_EmbeddedDataBeforeNetwork ==
    ~IsNone(source) =>
        /\ HoldsList =>
              /\ searched = <<>>
              /\ Val(source) = IF embedded.list = <<"error">> THEN <<>>
                               ELSE embedded.list
        /\ searched # <<>> => (~HoldsList /\ Truthy(matter_arg) /\ Truthy(site_arg))
        /\ Len(searched) <= 1
        /\ ~Searchable => searched = <<>>

\* Embedded rows are returned without a request although a case and a site
\* were given and the module has a search endpoint
C14_Witness ==
    /\ ~IsNone(source)
    /\ HoldsList
    /\ Val(source) = embedded.list
    /\ Searchable
    /\ Truthy(matter_arg)
    /\ Truthy(site_arg)
    /\ searched = <<>>

----------------------------------------------------------------------------
(* Claims about the pro bono assignments *)

\* The positions of the open Pro Bono assignments of the list
Qualifying ==
    {i \in 1..Len(assignment_list) :
        /\ IsNone(assignment_list[i].end_date)
        /\ assignment_list[i].type = "Pro Bono"}

Before(m1, m2) == m1.day < m2.day \/ (m1.day = m2.day /\ m1.tick < m2.tick)

StartOf(i) == assignment_list[i].start_date

\* The Individual was populated from the i-th assignment: its user was the
\* one user requested, and its start date was recorded
PopulatedFrom(i) ==
    /\ user_requests = <<UserUuid(i)>>
    /\ assignment_start_date = Some(StartOf(i))

NotPopulated == user_requests = <<>> /\ assignment_start_date = None

\* C15: populate_first_pro_bono_assignment populates the Individual from an
\* open Pro Bono assignment of the earliest start date, for every list
\* (also when the only such assignment starts on the current day); without
\* one it requests no user and leaves the Individual as it was.
C15_FirstIsEarliestOpenProBono ==
    populated_by = "first" =>
        IF Qualifying = {} THEN NotPopulated
        ELSE \E i \in Qualifying :
                /\ \A j \in Qualifying : ~Before(StartOf(j), StartOf(i))
                /\ PopulatedFrom(i)

----------------------------------------------------------------------------
(* Claims about element_to_dict *)

\* The children of e with tag t, in document order
ChildrenTagged(e, t) ==
    LET HasTag(c) == c.tag = t
    IN  SelectSeq(e.children, HasTag)

\* The flattening of an element as the documentation describes it
RECURSIVE Flattened(_)
Flattened(e) ==
    IF e.children = <<>>
    THEN TextValue(e.text)
    ELSE DictValue(
            [t \in {e.children[i].tag : i \in 1..Len(e.children)} |->
                LET same == ChildrenTagged(e, t)
                IN  IF Len(same) = 1 THEN Flattened(same[1])
                    ELSE ListValue([i \in 1..Len(same) |-> Flattened(same[i])])])

\* C18: element_to_dict flattens an element recursively: an element without
\* children gives its text; otherwise a dictionary with one key per distinct
\* child tag, a tag occurring once mapped to that child's value and a tag
\* occurring k >= 2 times mapped to the list of the k values in document
\* order, never a nested list, no child lost or duplicated.
C18_ElementToDictFlattens ==
    ~IsNone(converted) =>
        /\ Val(converted) = Flattened(element)
        /\ Val(converted).kind = "dict" =>
              \A t \in DOMAIN Val(converted).entries :
                  LET v == Val(converted).entries[t]
                  IN  v.kind = "list" =>
                        /\ Len(v.items) = Len(ChildrenTagged(element, t))
                        /\ Len(v.items) >= 2
                        /\ \A i \in 1..Len(v.items) : v.items[i].kind # "list"

\* A tag occurs three times among the children, a text between two
\* dictionaries
C18_Witness ==
    /\ ~IsNone(converted)
    /\ Len(element.children) = 3
    /\ "a" \in DOMAIN Val(converted).entries
    /\ Val(converted).entries["a"].kind = "list"
    /\ Len(Val(converted).entries["a"].items) = 3
    /\ Val(converted).entries["a"].items[1].kind = "dict"
    /\ Val(converted).entries["a"].items[2].kind = "text"
    /\ Val(converted).entries["a"].items[3].kind = "dict"

----------------------------------------------------------------------------
(* Claims about get_user_details *)

\* C19: get_user_details makes the user request first and then the search of
\* the user's organization affiliations, and returns a dictionary that holds
\* the key organization_affiliation, whatever the outcome of the user request
\* (a failure and a response without data included).
C19_AffiliationAlwaysReturned ==
    (user_pc \in {"returned", "raised"} /\ requested # <<>>) =>
        /\ user_pc = "returned"
        /\ requested = <<"user", "organization_affiliation">>
        /\ user_return_data.type = "dict"
        /\ "organization_affiliation" \in user_return_data.keys

----------------------------------------------------------------------------
(* Claims about check_custom_fields *)

\* C24: the two notions of custom field agree: for every entity type no key
\* of its standard key list is reported as a custom field by
\* check_custom_fields, so the keys check_custom_fields lists for a response
\* are keys the mapper of the entity places in custom_fields (the keys of the
\* response that are not standard keys).
C24_CustomKeysAreNotStandard ==
    ~IsNone(custom_keys) =>
        \A i \in 1..Len(Val(custom_keys)) :
            Val(custom_keys)[i] \notin StandardKeysOf(entity)

====
